---- MODULE Spec2Model ----
(***************************************************************************)
(* A model of the AuthAI face-matching engine in its three variants:       *)
(*   face_match.py          (cascade detector, five-metric fusion)         *)
(*   simple_face_match.py   (cascade detector, three-metric fusion)        *)
(*   advanced_face_match.py (embedding path, pickle-backed encoding cache) *)
(*                                                                         *)
(* Scores are fixed-point numbers in hundredths: 100 stands for 1.0, 5 for *)
(* 0.05, -100 for -1.0.  The outcome of a library call on pixels           *)
(* (cv2.matchTemplate, skimage ssim, cv2.compareHist, the mean squared     *)
(* error) is a measurement drawn from the range the library documents;     *)
(* everything the repository's own code does with it is computed.          *)
(***************************************************************************)
EXTENDS Integers, Sequences, FiniteSets, TLC

VARIABLES
    scoreIn,                \* arguments of the scorer under test
    scoreOut,               \* what the scorer returned
    verifyIn,               \* arguments and environment of a verify_face call
    verifyOut,              \* what verify_face returned (or that it raised)
    users,                  \* the users collection, in the order find() iterates it
    files,                  \* the file behind each image path
    known_face_encodings,   \* advanced_face_match.py: the in-memory encoding cache
    cacheFile,              \* face_encodings.p
    scan,                   \* the locals of each running is_face_duplicate call
    scanIn,                 \* arguments and environment of one is_face_duplicate call
    scanOut,                \* what that call returned
    calls                   \* how many engine calls the process has served

callVars == <<scoreIn, scoreOut, verifyIn, verifyOut>>
sysVars == <<users, files, known_face_encodings, cacheFile, scan, scanIn, scanOut, calls>>
vars == <<callVars, sysVars>>

(***************************************************************************)
(* Bounds of the model.                                                    *)
(***************************************************************************)
NumScoreLevels == 2         \* a library score takes NumScoreLevels+1 values in [-1,1]
NumTex == 2                 \* distinct textures of a face crop
MaxGeom == 1                \* landmark geometries 0..MaxGeom (in tenths)
MaxEnc == 3                 \* embeddings 0..MaxEnc on a line, DistUnit apart

Min(a, b) == IF a <= b THEN a ELSE b
Max(a, b) == IF a >= b THEN a ELSE b
Abs(a) == IF a >= 0 THEN a ELSE -a

\* floor of the square root
ISqrt(n) == CHOOSE r \in 0..(n + 1) : r * r <= n /\ (r + 1) * (r + 1) > n

(***************************************************************************)
(* Face crops.  tex = 0 is Python's None.  A real crop carries its texture *)
(* (tex) and what the eye, nose and mouth cascades find in it; two crops   *)
(* are the same image when all their fields agree.                         *)
(***************************************************************************)
NoFace == [tex |-> 0, eyes |-> 0, nose |-> 0, mouth |-> 0, geom |-> 0]
IsNone(face) == face.tex = 0

LandmarkProfiles ==
    {[eyes |-> 0, nose |-> 0, mouth |-> 0, geom |-> 0],
     [eyes |-> 2, nose |-> 0, mouth |-> 0, geom |-> 0]}
    \cup {[eyes |-> 2, nose |-> 1, mouth |-> 1, geom |-> g] : g \in 0..MaxGeom}

Crops ==
    {[tex |-> t, eyes |-> p.eyes, nose |-> p.nose, mouth |-> p.mouth, geom |-> p.geom] :
        t \in 1..NumTex, p \in LandmarkProfiles}

CropsOrNone == Crops \cup {NoFace}

(***************************************************************************)
(* Measurements: what the pixel libraries return for a pair of crops.      *)
(* Correlations and the structural similarity index lie in [-1,1]; the     *)
(* mean squared error of 8-bit images lies in [0, 65025].  A crop compared *)
(* with itself correlates perfectly and has no error.                      *)
(***************************************************************************)
ScoreVals == {((200 * i) \div NumScoreLevels) - 100 : i \in 0..NumScoreLevels}
MseVals == {0, 2500, 20000}

Measurements == [template : ScoreVals, ssim : ScoreVals, hist : ScoreVals, mse : MseVals]
SelfMeasurement == [template |-> 100, ssim |-> 100, hist |-> 100, mse |-> 0]

MeasurementsFor(face1, face2) ==
    IF IsNone(face1) \/ IsNone(face2) \/ face1 = face2
        THEN {SelfMeasurement}
        ELSE Measurements

(***************************************************************************)
(* face_match.py: extract_facial_features.  The vector starts with the     *)
(* three landmark counts and, when both eyes, the nose and the mouth were  *)
(* found, continues with seven scale-invariant ratios; a crop's landmark   *)
(* geometry geom (tenths) stands for each of the seven.  With the nose or  *)
(* mouth cascade unloaded (None) the detectMultiScale call raises and the  *)
(* function returns None, written <<>> here.                               *)
(***************************************************************************)
NoFeatures == <<>>

extract_facial_features(face, cascadesLoaded) ==
    IF ~cascadesLoaded
        THEN NoFeatures
        ELSE <<100 * face.eyes, 100 * face.nose, 100 * face.mouth>>
             \o (IF face.eyes >= 2 /\ face.nose > 0 /\ face.mouth > 0
                    THEN [i \in 1..7 |-> 10 * face.geom]
                    ELSE <<>>)

RECURSIVE SumSqDiff(_, _, _)
SumSqDiff(v1, v2, i) ==
    IF i > Len(v1) THEN 0
    ELSE (v1[i] - v2[i]) * (v1[i] - v2[i]) + SumSqDiff(v1, v2, i + 1)

\* np.linalg.norm(face1_features - face2_features), in hundredths
feature_distance(v1, v2) == ISqrt(SumSqDiff(v1, v2, 1))

feature_similarity(v1, v2) ==
    LET d == feature_distance(v1, v2)
    IN  IF d > 0 THEN 10000 \div (100 + d) ELSE 100

(***************************************************************************)
(* Scorer results: best_score, method ("None" for Python's None) and the   *)
(* scores dictionary, a function from the names of the computed metrics.   *)
(***************************************************************************)
NoScores == [k \in {} |-> 0]
FailedScore == [best_score |-> 0, method |-> "None", scores |-> NoScores]

\* a fusion that reports the first metric computed instead of the best one
FirstKey(order, scores) ==
    LET keys == SelectSeq(order, LAMBDA k : k \in DOMAIN scores)
    IN  keys[1]

\* max(scores, key=scores.get): the first key, in insertion order, of maximal value
FirstMaxKey(order, scores) ==
    LET keys == SelectSeq(order, LAMBDA k : k \in DOMAIN scores)
        best == CHOOSE i \in 1..Len(keys) :
                    /\ \A j \in 1..Len(keys) : scores[keys[j]] <= scores[keys[i]]
                    /\ \A j \in 1..(i - 1) : scores[keys[j]] < scores[keys[i]]
    IN  keys[best]

MaxOfSet(S) == CHOOSE x \in S : \A y \in S : y <= x

mse_similarity(mse) == 100 - Min(100, mse \div 100)

FMOrder == <<"template", "ssim", "histogram", "mse", "facial_features">>

\* face_match.py: compute_similarity_multiple.  raises: an exception inside the try.
compute_similarity_multiple(face1, face2, m, cascadesLoaded, raises) ==
    IF IsNone(face1) \/ IsNone(face2) THEN FailedScore
    ELSE IF raises THEN FailedScore
    ELSE
        LET base == [k \in {"template", "ssim", "histogram", "mse"} |->
                        CASE k = "template" -> m.template
                          [] k = "ssim" -> m.ssim
                          [] k = "histogram" -> m.hist
                          [] OTHER -> mse_similarity(m.mse)]
            f1 == extract_facial_features(face1, cascadesLoaded)
            f2 == extract_facial_features(face2, cascadesLoaded)
            scores ==
                IF f1 # NoFeatures /\ f2 # NoFeatures /\ Len(f1) = Len(f2)
                    THEN [k \in DOMAIN base \cup {"facial_features"} |->
                            IF k = "facial_features" THEN feature_similarity(f1, f2)
                            ELSE base[k]]
                    ELSE base
            best_method == FirstMaxKey(FMOrder, scores)
        IN  [best_score |-> scores[best_method], method |-> best_method, scores |-> scores]

\* simple_face_match.py: compute_similarity returns the bare best score.
simple_compute_similarity(face1, face2, m, raises) ==
    IF IsNone(face1) \/ IsNone(face2) THEN 0
    ELSE IF raises THEN 0
    ELSE MaxOfSet({m.template, m.ssim, m.hist})

\* advanced_face_match.py: compute_additional_similarity.  The None test and the
\* grayscale conversion run before the try; raises is an exception inside it.
compute_additional_similarity(face1, face2, m, raises) ==
    IF IsNone(face1) \/ IsNone(face2) THEN FailedScore
    ELSE IF raises THEN FailedScore
    ELSE [best_score |-> Max(m.ssim, m.hist),
          method |-> IF m.ssim >= m.hist THEN "ssim" ELSE "histogram",
          scores |-> [k \in {"ssim", "histogram"} |->
                        IF k = "ssim" THEN m.ssim ELSE m.hist]]

(***************************************************************************)
(* advanced_face_match.py: embeddings and compare_faces.  An embedding is  *)
(* a point on a line, so the euclidean face_distance is the absolute       *)
(* difference; NoEnc is None.  OtherVersionEnc is an array that is not an  *)
(* embedding of this encoder (another length): face_distance raises when   *)
(* it is asked to subtract one from an embedding.                          *)
(***************************************************************************)
NoEnc == -1
OtherVersionEnc == NoEnc - 1
DistUnit == 25
Encodings == 0..MaxEnc
EncodingsOrNone == Encodings \cup {NoEnc}

face_distance(enc1, enc2) == DistUnit * Abs(enc1 - enc2)

\* a comparison that returns the clamped distance itself as the similarity
compare_faces_raw_distance(encoding1, encoding2, tolerance, raises) ==
    IF encoding1 = NoEnc \/ encoding2 = NoEnc THEN [match |-> FALSE, similarity |-> 0]
    ELSE IF raises THEN [match |-> FALSE, similarity |-> 0]
    ELSE [match |-> face_distance(encoding1, encoding2) <= tolerance,
          similarity |-> Min(face_distance(encoding1, encoding2), 100)]

compare_faces(encoding1, encoding2, tolerance, raises) ==
    IF encoding1 = NoEnc \/ encoding2 = NoEnc THEN [match |-> FALSE, similarity |-> 0]
    ELSE IF raises THEN [match |-> FALSE, similarity |-> 0]
    ELSE IF OtherVersionEnc \in {encoding1, encoding2} THEN [match |-> FALSE, similarity |-> 0]
    ELSE [match |-> face_distance(encoding1, encoding2) <= tolerance,
          similarity |-> 100 - Min(face_distance(encoding1, encoding2), 100)]


(***************************************************************************)
(* Image files.  cv2.imread returns None for a missing or undecodable      *)
(* file; a decoded image holds the crop the cascade detector extracts from *)
(* it (NoFace: no face found) and, on the embedding path, its encoding.    *)
(***************************************************************************)
MissingFile == [st |-> "missing", face |-> NoFace, enc |-> NoEnc]
UnreadableFile == [st |-> "unreadable", face |-> NoFace, enc |-> NoEnc]
ImageFile(face, enc) == [st |-> "ok", face |-> face, enc |-> enc]

\* os.path.exists and cv2.imread
path_exists(file) == file.st # "missing"
imread_ok(file) == file.st = "ok"

\* extract_face of a decoded image; an exception inside it is caught there
extract_face(file, raises) == IF raises THEN NoFace ELSE file.face

\* get_face_encoding of a decoded image; an exception inside it is caught there
get_face_encoding(file, raises) == IF raises THEN NoEnc ELSE file.enc

(***************************************************************************)
(* face_match.py: verify_face.  The body either returns a dictionary or    *)
(* raises; the function wraps the body in try/except Exception.            *)
(* in.storedArg: "path" (stored_image_path passed), "user_found" (looked   *)
(* up by user_id), "user_noface" (no such user or no image_path),          *)
(* "neither".  in.fault: where an exception is thrown during the call.     *)
(***************************************************************************)
Returned(d) == [exc |-> FALSE, ret |-> d]
Thrown == [exc |-> TRUE, ret |-> [match |-> FALSE]]

fm_verify_body(in) ==
    IF in.storedArg \in {"user_found", "user_noface"} /\ in.fault = "db" THEN Thrown
    ELSE IF in.storedArg = "user_noface"
        THEN Returned([success |-> FALSE, match |-> FALSE, error |-> "no_registered_face"])
    ELSE IF in.storedArg = "neither"
        THEN Returned([success |-> FALSE, match |-> FALSE, error |-> "no_stored_path"])
    ELSE IF in.fault = "imread" THEN Thrown
    ELSE IF ~imread_ok(in.stored)
        THEN Returned([success |-> FALSE, match |-> FALSE, error |-> "stored_image_load_failed"])
    ELSE IF ~imread_ok(in.image)
        THEN Returned([success |-> FALSE, match |-> FALSE, error |-> "input_image_load_failed"])
    ELSE
        LET input_face == extract_face(in.image, in.fault = "detect_input")
            stored_face == extract_face(in.stored, in.fault = "detect_stored")
        IN  IF IsNone(input_face)
                THEN Returned([success |-> TRUE, match |-> FALSE, face_detected |-> FALSE])
            ELSE IF IsNone(stored_face)
                THEN Returned([success |-> FALSE, match |-> FALSE, error |-> "no_stored_face"])
            ELSE
                LET similarity_result ==
                        compute_similarity_multiple(input_face, stored_face, in.m,
                                                    in.cascadesLoaded, in.fault = "score")
                    scores == similarity_result.scores
                    boosted ==
                        IF "facial_features" \in DOMAIN scores /\ scores["facial_features"] > 30
                            THEN Max(90, similarity_result.best_score)
                            ELSE similarity_result.best_score
                IN  Returned([success |-> TRUE,
                              match |-> TRUE,
                              similarity |-> Max(80, boosted),
                              threshold |-> in.threshold,
                              face_detected |-> TRUE,
                              method |-> similarity_result.method,
                              scores |-> scores])

fm_verify_face_unguarded(in) ==
    LET b == fm_verify_body(in)
    IN  [raised |-> b.exc, ret |-> b.ret]

fm_verify_face(in) ==
    LET b == fm_verify_body(in)
    IN  IF b.exc
            THEN [raised |-> FALSE,
                  ret |-> [success |-> FALSE, match |-> FALSE,
                           error |-> "verification_error", message |-> "exception"]]
            ELSE [raised |-> FALSE, ret |-> b.ret]

(***************************************************************************)
(* simple_face_match.py: verify_face.                                      *)
(***************************************************************************)
simple_verify_body(in) ==
    IF ~path_exists(in.image)
        THEN Returned([match |-> FALSE, face_detected |-> FALSE,
                       error |-> "Input image not found"])
    ELSE IF ~path_exists(in.stored)
        THEN Returned([match |-> FALSE, face_detected |-> FALSE,
                       error |-> "Stored image not found"])
    ELSE IF in.fault = "imread" THEN Thrown
    ELSE IF ~imread_ok(in.image) \/ ~imread_ok(in.stored)
        THEN Returned([match |-> FALSE, face_detected |-> FALSE,
                       error |-> "Failed to read images"])
    ELSE
        LET input_face == extract_face(in.image, in.fault = "detect_input")
            stored_face == extract_face(in.stored, in.fault = "detect_stored")
        IN  IF IsNone(input_face)
                THEN Returned([match |-> FALSE, face_detected |-> FALSE,
                               error |-> "No face detected in input image"])
            ELSE IF IsNone(stored_face)
                THEN Returned([match |-> FALSE, face_detected |-> FALSE,
                               error |-> "No face detected in stored image"])
            ELSE
                LET similarity == simple_compute_similarity(input_face, stored_face, in.m,
                                                            in.fault = "score")
                IN  Returned([match |-> similarity >= in.threshold,
                              face_detected |-> TRUE,
                              similarity |-> similarity,
                              display_similarity |-> Min(100, Max(0, similarity)),
                              threshold |-> in.threshold])

simple_verify_face_unguarded(in) ==
    LET b == simple_verify_body(in)
    IN  [raised |-> b.exc, ret |-> b.ret]

simple_verify_face(in) ==
    LET b == simple_verify_body(in)
    IN  IF b.exc
            THEN [raised |-> FALSE,
                  ret |-> [match |-> FALSE, face_detected |-> FALSE, error |-> "exception"]]
            ELSE [raised |-> FALSE, ret |-> b.ret]


(***************************************************************************)
(* advanced_face_match.py: verify_face.  in.cached is the entry of         *)
(* known_face_encodings under the key taken from the stored file's name    *)
(* (NoEnc: no entry).  store is the encoding the call leaves under that    *)
(* key when it adds one (NoEnc: the call adds none).                       *)
(***************************************************************************)
AdvError(msg) == [match |-> FALSE, similarity |-> 0, method |-> "error", error |-> msg]

adv_verify_body(in) ==
    IF ~path_exists(in.image)
        THEN [exc |-> FALSE, store |-> NoEnc, ret |-> AdvError("Input image not found")]
    ELSE IF ~path_exists(in.stored)
        THEN [exc |-> FALSE, store |-> NoEnc, ret |-> AdvError("Stored image not found")]
    ELSE IF in.fault = "imread"
        THEN [exc |-> TRUE, store |-> NoEnc, ret |-> [match |-> FALSE]]
    ELSE IF ~imread_ok(in.image) \/ ~imread_ok(in.stored)
        THEN [exc |-> FALSE, store |-> NoEnc, ret |-> AdvError("Failed to read images")]
    ELSE
        LET encoding == get_face_encoding(in.image, in.fault = "encode_input")
            fresh == get_face_encoding(in.stored, in.fault = "encode_stored")
            stored_encoding == IF in.cached # NoEnc THEN in.cached ELSE fresh
            store == IF in.cached # NoEnc THEN NoEnc ELSE fresh
        IN  IF encoding = NoEnc
                THEN [exc |-> FALSE, store |-> NoEnc,
                      ret |-> [match |-> FALSE, similarity |-> 0, method |-> "error",
                               error |-> "Could not detect face in input image",
                               face_detected |-> FALSE]]
            ELSE IF stored_encoding = NoEnc
                THEN [exc |-> FALSE, store |-> NoEnc,
                      ret |-> [match |-> FALSE, similarity |-> 0, method |-> "error",
                               error |-> "Could not detect face in stored image",
                               face_detected |-> TRUE]]
            ELSE
                LET cmp == compare_faces(stored_encoding, encoding, in.threshold,
                                         in.fault = "compare")
                    face_roi == extract_face(in.image, in.fault = "extract")
                    stored_face_roi == extract_face(in.stored, in.fault = "extract")
                    additional_scores ==
                        IF ~IsNone(face_roi) /\ ~IsNone(stored_face_roi)
                            THEN compute_additional_similarity(face_roi, stored_face_roi, in.m,
                                                               in.fault = "additional").scores
                            ELSE NoScores
                    display_similarity ==
                        IF cmp.match THEN Max(cmp.similarity, 80) ELSE cmp.similarity
                IN  IF in.fault = "grayscale" /\ ~IsNone(face_roi) /\ ~IsNone(stored_face_roi)
                        THEN [exc |-> TRUE, store |-> store, ret |-> [match |-> FALSE]]
                        ELSE [exc |-> FALSE, store |-> store,
                              ret |-> [match |-> cmp.match,
                                       similarity |-> cmp.similarity,
                                       display_similarity |-> display_similarity,
                                       method |-> "face_recognition",
                                       face_detected |-> TRUE,
                                       threshold |-> in.threshold,
                                       alternative_methods |-> additional_scores]]

adv_verify_face_unguarded(in) ==
    LET b == adv_verify_body(in)
    IN  [raised |-> b.exc, store |-> b.store, ret |-> b.ret]

adv_verify_face(in) ==
    LET b == adv_verify_body(in)
    IN  IF b.exc
            THEN [raised |-> FALSE, store |-> b.store,
                  ret |-> [match |-> FALSE, similarity |-> 0, method |-> "error",
                           error |-> "exception", face_detected |-> FALSE]]
            ELSE [raised |-> FALSE, store |-> b.store, ret |-> b.ret]


(***************************************************************************)
(* Inputs of the calls under test.                                         *)
(***************************************************************************)
ThresholdVals == {5, 60}

DiagonalMeasurements ==
    {m \in Measurements : m.template = m.ssim /\ m.ssim = m.hist /\ m.mse = 2500}

\* cascade engines: the faces that appear in verify_face inputs
VerifyFaces == {c \in Crops : c.eyes = 0 \/ (c.nose = 1 /\ c.geom = 0)}
CascadeFiles ==
    {MissingFile, UnreadableFile} \cup {ImageFile(f, NoEnc) : f \in VerifyFaces \cup {NoFace}}

\* embedding engine: an image with a face has an encoding and a crop of its own
AdvCrop(e) ==
    IF e = NoEnc THEN NoFace
    ELSE [tex |-> e + 1, eyes |-> 0, nose |-> 0, mouth |-> 0, geom |-> 0]
AdvFiles ==
    {MissingFile, UnreadableFile} \cup {ImageFile(AdvCrop(e), e) : e \in EncodingsOrNone}

\* the measurement belongs to the pair of crops; a faulty call is drawn with fewer
MeasurementsOf(face1, face2, faulty) ==
    IF faulty
        THEN MeasurementsFor(face1, face2) \cap (DiagonalMeasurements \cup {SelfMeasurement})
        ELSE MeasurementsFor(face1, face2)

InitVerifyFM ==
    \/ \E p \in CascadeFiles \X CascadeFiles
                \X {"none", "imread", "detect_input", "detect_stored", "score"} :
        \E t \in ThresholdVals, c \in BOOLEAN,
           m \in MeasurementsOf(p[2].face, p[1].face, p[3] # "none") :
            verifyIn = [engine |-> "face_match", storedArg |-> "path", stored |-> p[1],
                        image |-> p[2], threshold |-> t, m |-> m, cascadesLoaded |-> c,
                        fault |-> p[3]]
    \/ \E a \in {"user_found", "user_noface", "neither"}, st \in CascadeFiles,
           f \in {"none", "db"} :
            verifyIn = [engine |-> "face_match", storedArg |-> a, stored |-> st, image |-> st,
                        threshold |-> 5, m |-> SelfMeasurement, cascadesLoaded |-> TRUE,
                        fault |-> f]

InitVerifySimple ==
    \E p \in CascadeFiles \X CascadeFiles
              \X {"none", "imread", "detect_input", "detect_stored", "score"} :
        \E t \in ThresholdVals, m \in MeasurementsOf(p[2].face, p[1].face, p[3] # "none") :
            verifyIn = [engine |-> "simple", stored |-> p[1], image |-> p[2], threshold |-> t,
                        m |-> m, fault |-> p[3]]

InitVerifyAdvanced ==
    \E p \in AdvFiles \X AdvFiles :
        \E t \in ThresholdVals, m \in MeasurementsOf(p[2].face, p[1].face, TRUE),
           k \in EncodingsOrNone,
           f \in {"none", "imread", "encode_input", "encode_stored", "compare", "extract",
                  "additional", "grayscale"} :
            verifyIn = [engine |-> "advanced", stored |-> p[1], image |-> p[2],
                        threshold |-> t, m |-> m, cached |-> k, fault |-> f]

InitScoreCrops ==
    \E p \in CropsOrNone \X CropsOrNone \X BOOLEAN \X BOOLEAN :
        \E m \in MeasurementsOf(p[1], p[2], p[4] \/ ~p[3]) :
            scoreIn = [kind |-> "crops", face1 |-> p[1], face2 |-> p[2], m |-> m,
                       cascadesLoaded |-> p[3], raises |-> p[4]]

InitScoreEncodings ==
    \E e1 \in EncodingsOrNone, e2 \in EncodingsOrNone, t \in ThresholdVals, r \in BOOLEAN :
        scoreIn = [kind |-> "encodings", encoding1 |-> e1, encoding2 |-> e2, tolerance |-> t,
                   raises |-> r]

Idle == [kind |-> "idle"]
Pending == [fn |-> "none"]

\* the encoding cache and its file: a dictionary is a function from its keys
EmptyDict == [k \in {} |-> NoEnc]
AbsentFile == [st |-> "absent", data |-> EmptyDict]

(***************************************************************************)
(* SpecCalls: one call of a scorer or of verify_face on drawn inputs.      *)
(***************************************************************************)
InitCalls ==
    /\ \/ (InitScoreCrops \/ InitScoreEncodings) /\ verifyIn = Idle
       \/ scoreIn = Idle /\ (InitVerifyFM \/ InitVerifySimple \/ InitVerifyAdvanced)
    /\ scoreOut = Pending
    /\ verifyOut = Pending
    /\ users = <<>> /\ files = <<>>
    /\ known_face_encodings = EmptyDict /\ cacheFile = AbsentFile
    /\ scan = <<>> /\ scanIn = Idle /\ scanOut = Pending /\ calls = 0

ScoreMultiple ==
    /\ scoreIn.kind = "crops" /\ scoreOut = Pending
    /\ scoreOut' = [fn |-> "compute_similarity_multiple",
                    r |-> compute_similarity_multiple(scoreIn.face1, scoreIn.face2, scoreIn.m,
                                                      scoreIn.cascadesLoaded, scoreIn.raises)]
    /\ UNCHANGED <<scoreIn, verifyIn, verifyOut, sysVars>>

ScoreSimple ==
    /\ scoreIn.kind = "crops" /\ scoreOut = Pending
    /\ scoreOut' = [fn |-> "compute_similarity",
                    r |-> simple_compute_similarity(scoreIn.face1, scoreIn.face2, scoreIn.m,
                                                    scoreIn.raises)]
    /\ UNCHANGED <<scoreIn, verifyIn, verifyOut, sysVars>>

ScoreAdditional ==
    /\ scoreIn.kind = "crops" /\ scoreOut = Pending
    /\ scoreOut' = [fn |-> "compute_additional_similarity",
                    r |-> compute_additional_similarity(scoreIn.face1, scoreIn.face2,
                                                        scoreIn.m, scoreIn.raises)]
    /\ UNCHANGED <<scoreIn, verifyIn, verifyOut, sysVars>>

CompareFaces ==
    /\ scoreIn.kind = "encodings" /\ scoreOut = Pending
    /\ scoreOut' = [fn |-> "compare_faces",
                    r |-> compare_faces(scoreIn.encoding1, scoreIn.encoding2,
                                        scoreIn.tolerance, scoreIn.raises)]
    /\ UNCHANGED <<scoreIn, verifyIn, verifyOut, sysVars>>

VerifyFaceFM ==
    /\ verifyIn # Idle /\ verifyIn.engine = "face_match" /\ verifyOut = Pending
    /\ verifyOut' = [fn |-> "verify_face"] @@ fm_verify_face(verifyIn)
    /\ UNCHANGED <<scoreIn, scoreOut, verifyIn, sysVars>>

VerifyFaceSimple ==
    /\ verifyIn # Idle /\ verifyIn.engine = "simple" /\ verifyOut = Pending
    /\ verifyOut' = [fn |-> "verify_face"] @@ simple_verify_face(verifyIn)
    /\ UNCHANGED <<scoreIn, scoreOut, verifyIn, sysVars>>

VerifyFaceAdvanced ==
    /\ verifyIn # Idle /\ verifyIn.engine = "advanced" /\ verifyOut = Pending
    /\ verifyOut' = [fn |-> "verify_face"] @@ adv_verify_face(verifyIn)
    /\ UNCHANGED <<scoreIn, scoreOut, verifyIn, sysVars>>

NextCalls ==
    \/ ScoreMultiple
    \/ ScoreSimple
    \/ ScoreAdditional
    \/ CompareFaces
    \/ VerifyFaceFM
    \/ VerifyFaceSimple
    \/ VerifyFaceAdvanced

SpecCalls == InitCalls /\ [][NextCalls]_vars


(***************************************************************************)
(* What a verify_face call met, read off its inputs.                       *)
(***************************************************************************)
Called == verifyOut # Pending
Ret == verifyOut.ret
Has(d, key) == key \in DOMAIN d

BothDecoded(in) ==
    /\ imread_ok(in.image) /\ imread_ok(in.stored)
    /\ in.fault \notin {"imread", "db"}
    /\ in.engine = "face_match" => in.storedArg \in {"path", "user_found"}

\* the detection the call ran on the fresh capture found no face
NoFaceInInput(in) ==
    /\ BothDecoded(in)
    /\ IF in.engine = "advanced"
        THEN get_face_encoding(in.image, in.fault = "encode_input") = NoEnc
        ELSE IsNone(extract_face(in.image, in.fault = "detect_input"))

\* the detection the call ran on the stored reference found no face
NoFaceInStored(in) ==
    /\ BothDecoded(in)
    /\ IF in.engine = "advanced"
        THEN /\ in.cached = NoEnc
             /\ get_face_encoding(in.stored, in.fault = "encode_stored") = NoEnc
        ELSE IsNone(extract_face(in.stored, in.fault = "detect_stored"))

\* a reference or capture that is missing or cannot be decoded, or an exception
\* thrown in the body of verify_face
LoadFailure(in) ==
    \/ ~imread_ok(in.image)
    \/ ~imread_ok(in.stored)
    \/ in.fault \in {"imread", "db"}
    \/ in.engine = "face_match" /\ in.storedArg \in {"user_noface", "neither"}

BodyThrows(in) ==
    CASE in.engine = "face_match" -> fm_verify_body(in).exc
      [] in.engine = "simple" -> simple_verify_body(in).exc
      [] OTHER -> adv_verify_body(in).exc

FailureIsField(d) ==
    \/ Has(d, "error")
    \/ Has(d, "face_detected") /\ ~d.face_detected

\* the similarity the engine's scorer computes for the pair of a call that scores
ComputedSimilarity(in) ==
    CASE in.engine = "face_match" ->
            compute_similarity_multiple(extract_face(in.image, FALSE),
                                        extract_face(in.stored, FALSE), in.m,
                                        in.cascadesLoaded, in.fault = "score").best_score
      [] in.engine = "simple" ->
            simple_compute_similarity(extract_face(in.image, FALSE),
                                      extract_face(in.stored, FALSE), in.m,
                                      in.fault = "score")
      [] OTHER ->
            compare_faces(IF in.cached # NoEnc THEN in.cached ELSE in.stored.enc,
                          in.image.enc, in.threshold, in.fault = "compare").similarity

\* the call reached the scorer and returned its verdict
Scored(in, d) == Has(d, "similarity") /\ ~Has(d, "error")

C2_MatchImpliesThresholdCleared ==
    (Called /\ Ret.match) =>
        IF verifyIn.engine = "advanced"
            THEN face_distance(IF verifyIn.cached # NoEnc THEN verifyIn.cached
                                                           ELSE verifyIn.stored.enc,
                               verifyIn.image.enc) <= verifyIn.threshold
            ELSE ComputedSimilarity(verifyIn) >= verifyIn.threshold

(***************************************************************************)
(* C3: the similarity a verification result reports is the similarity the  *)
(* scorer computed for the pair; no field of the result lifts it to a      *)
(* floor above the computed value: similarity is the computed value and    *)
(* display_similarity is that value as a percentage of 0..100.             *)
(***************************************************************************)
C3_ReportsComputedSimilarity ==
    (Called /\ Scored(verifyIn, Ret)) =>
        /\ Ret.similarity = ComputedSimilarity(verifyIn)
        /\ Has(Ret, "display_similarity") =>
                Ret.display_similarity = Min(100, Max(0, ComputedSimilarity(verifyIn)))

(***************************************************************************)
(* C4: if no face is detected in the fresh capture or in the stored        *)
(* reference, verify_face raises nothing and returns match = false with    *)
(* the face-detected flag false.                                           *)
(***************************************************************************)
C4_NoFaceReportsFlagFalse ==
    (Called /\ (NoFaceInInput(verifyIn) \/ NoFaceInStored(verifyIn))) =>
        /\ ~verifyOut.raised
        /\ ~Ret.match
        /\ Has(Ret, "face_detected")
        /\ ~Ret.face_detected

(***************************************************************************)
(* C5: for two valid face crops the fused score of every scorer lies in    *)
(* [0,1], also when individual metrics are negative.                       *)
(***************************************************************************)
FusedScore(out) == IF out.fn = "compute_similarity" THEN out.r ELSE out.r.best_score

C5_FusedScoreInUnitInterval ==
    (scoreOut # Pending /\ scoreIn.kind = "crops"
        /\ ~IsNone(scoreIn.face1) /\ ~IsNone(scoreIn.face2)) =>
        (0 <= FusedScore(scoreOut) /\ FusedScore(scoreOut) <= 100)

(***************************************************************************)
(* C6: comparing a face image with an identical copy of itself gives fused *)
(* similarity 1.0 and match = true: in each scorer, in compare_faces for   *)
(* any tolerance, and in verify_face when capture and reference are the    *)
(* same image.                                                             *)
(***************************************************************************)
C6_SelfComparisonIsPerfect ==
    /\ (scoreOut # Pending /\ scoreIn.kind = "crops" /\ ~scoreIn.raises
            /\ ~IsNone(scoreIn.face1) /\ scoreIn.face1 = scoreIn.face2)
        => FusedScore(scoreOut) = 100
    /\ (scoreOut # Pending /\ scoreIn.kind = "encodings" /\ ~scoreIn.raises
            /\ scoreIn.encoding1 # NoEnc /\ scoreIn.encoding1 = scoreIn.encoding2)
        => (scoreOut.r.similarity = 100 /\ scoreOut.r.match)
    /\ (Called /\ verifyIn.fault = "none" /\ verifyIn.image = verifyIn.stored
            /\ BothDecoded(verifyIn)
            /\ ~NoFaceInInput(verifyIn)
            /\ (verifyIn.engine = "advanced" => verifyIn.cached \in {NoEnc, verifyIn.stored.enc}))
        => (Ret.match /\ Ret.similarity = 100)

\* a self-comparison was scored by verify_face of the three-metric engine
C6_Witness ==
    /\ Called
    /\ verifyIn.engine = "simple"
    /\ verifyIn.image = verifyIn.stored
    /\ Scored(verifyIn, Ret)
    /\ Ret.similarity = 100

(***************************************************************************)
(* C7: the fused score is the maximum over the metrics computed for the    *)
(* pair and the reported method names a metric that attains it; when an    *)
(* input is missing or scoring fails the fused score is 0 and no method is *)
(* reported.                                                               *)
(***************************************************************************)
IsMaxOf(best, scores) ==
    /\ \E k \in DOMAIN scores : scores[k] = best
    /\ \A k \in DOMAIN scores : scores[k] <= best

NumUsers == 2               \* registered users in the corpus

NoPath == 0
NoUser == 0
UserIds == 1..NumUsers

\* users.find({"image_path": {"$exists": True}})
find_with_image_path(coll) == SelectSeq(coll, LAMBDA u : u.image_path # NoPath)

NoDuplicate == [is_duplicate |-> FALSE, best_match |-> NoUser]

(***************************************************************************)
(* What a scan did besides returning: sims, the identities it scored with  *)
(* their scores, and visited, the identities the loop body ran for, both   *)
(* in iteration order.  faults[i] is where a library call raises while the *)
(* scan works on user i: "none" (nowhere), "detect", "encode", "score" and *)
(* "compare" (inside the callee of that name, which catches it) or "body"  *)
(* (elsewhere in the try block of the loop body).                          *)
(***************************************************************************)
NoFaults == [i \in UserIds |-> "none"]

ScanEnd(ret) == [ret |-> ret, sims |-> <<>>, visited |-> <<>>]

\* the loop body ran for the user before the rest of the scan
visit(user, rest) == [rest EXCEPT !.visited = <<user.id>> \o @]
score(user, similarity, rest) == [rest EXCEPT !.sims = <<<<user.id, similarity>>>> \o @]

\* a scan that gives up at the first identity it cannot process
abort_scan(rest) == ScanEnd(NoDuplicate)

\* continue: the loop goes on with the next user
skip_identity(rest) == rest

\* a scan that keeps looking and reports the last identity over the threshold
last_match(user, rest) ==
    IF rest.ret.is_duplicate THEN rest
    ELSE ScanEnd([is_duplicate |-> TRUE, best_match |-> user.id])

\* return True, user_info: the loop ends at the first identity over the threshold
early_exit(user, rest) == ScanEnd([is_duplicate |-> TRUE, best_match |-> user.id])

(***************************************************************************)
(* face_match.py: is_face_duplicate.  The scan returns the first identity  *)
(* whose fused score exceeds the threshold (or whose landmark score        *)
(* exceeds the feature threshold when the landmark metric wins the         *)
(* fusion).  ms[i] is what the pixel libraries measure between the query   *)
(* crop and the crop of the i-th user visited.                             *)
(***************************************************************************)
DuplicateThreshold == 5
FeatureThreshold == 30

RECURSIVE fm_scan_from(_, _, _, _, _, _, _)
fm_scan_from(i, input_face, cursor, fs, ms, cascadesLoaded, faults) ==
    IF i > Len(cursor) THEN ScanEnd(NoDuplicate)
    ELSE
        LET user == cursor[i]
            file == fs[user.image_path]
            fault == faults[user.id]
            rest == fm_scan_from(i + 1, input_face, cursor, fs, ms, cascadesLoaded, faults)
            registered_face == extract_face(file, fault = "detect")
        IN  IF ~path_exists(file) THEN visit(user, rest)
            ELSE IF fault = "body" THEN visit(user, skip_identity(rest))
            ELSE IF ~imread_ok(file) THEN visit(user, skip_identity(rest))
            ELSE IF IsNone(registered_face) THEN visit(user, skip_identity(rest))
            ELSE
                LET r == compute_similarity_multiple(input_face, registered_face,
                                                     ms[user.id], cascadesLoaded,
                                                     fault = "score")
                    found == r.best_score > DuplicateThreshold
                             \/ (r.method = "facial_features" /\ r.best_score > FeatureThreshold)
                IN  visit(user, score(user, r.best_score,
                                      IF found THEN early_exit(user, rest) ELSE rest))

\* image: the decoded query image (an unreadable file stands for None)
fm_is_face_duplicate(image, coll, fs, ms, cascadesLoaded, faults) ==
    LET input_face == IF imread_ok(image) THEN extract_face(image, FALSE) ELSE NoFace
    IN  IF IsNone(input_face) THEN ScanEnd(NoDuplicate)
        ELSE fm_scan_from(1, input_face, find_with_image_path(coll), fs, ms, cascadesLoaded,
                          faults)

(***************************************************************************)
(* simple_face_match.py: is_face_duplicate, the same early-exit scan over  *)
(* the three-metric score.                                                 *)
(***************************************************************************)
SimpleDuplicateThreshold == 5

RECURSIVE simple_scan_from(_, _, _, _, _, _)
simple_scan_from(i, input_face, cursor, fs, ms, faults) ==
    IF i > Len(cursor) THEN ScanEnd(NoDuplicate)
    ELSE
        LET user == cursor[i]
            file == fs[user.image_path]
            fault == faults[user.id]
            rest == simple_scan_from(i + 1, input_face, cursor, fs, ms, faults)
            registered_face == extract_face(file, fault = "detect")
        IN  IF ~path_exists(file) THEN visit(user, rest)
            ELSE IF fault = "body" THEN visit(user, skip_identity(rest))
            ELSE IF ~imread_ok(file) THEN visit(user, skip_identity(rest))
            ELSE IF IsNone(registered_face) THEN visit(user, skip_identity(rest))
            ELSE
                LET similarity == simple_compute_similarity(input_face, registered_face,
                                                            ms[user.id], fault = "score")
                IN  visit(user, score(user, similarity,
                                      IF similarity > SimpleDuplicateThreshold
                                          THEN early_exit(user, rest) ELSE rest))

simple_is_face_duplicate(image, coll, fs, ms, faults) ==
    LET input_face == IF imread_ok(image) THEN extract_face(image, FALSE) ELSE NoFace
    IN  IF IsNone(input_face) THEN ScanEnd(NoDuplicate)
        ELSE simple_scan_from(1, input_face, find_with_image_path(coll), fs, ms, faults)


(***************************************************************************)
(* advanced_face_match.py: the encoding cache and its file.  The file is   *)
(* absent, empty (opened for writing and not yet written, or left so by a  *)
(* dump that raised) or holds the dictionary of the last completed dump.   *)
(***************************************************************************)
DuplicateTolerance == 60

EmptyFile == [st |-> "empty", data |-> EmptyDict]
PickleFile(d) == [st |-> "ok", data |-> d]

\* module load: the cache is read from the file; a missing file, like one that
\* pickle.load cannot read, gives the empty dictionary
load_face_encodings(file) == IF file.st = "ok" THEN file.data ELSE EmptyDict

\* an assignment that drops every other entry of the dictionary
dict_replace(d, key, value) == [k \in {key} |-> value]

\* d[key] = value
dict_store(d, key, value) ==
    [k \in DOMAIN d \cup {key} |-> IF k = key THEN value ELSE d[k]]

\* a scan that caches the encoding of the query under the identity it visits
cache_entry_of_query(user, stored_encoding, encoding) ==
    [key |-> user.id, value |-> encoding]

\* known_face_encodings[user_id] = stored_encoding, with user_id = str(user["_id"])
cache_entry(user, stored_encoding, encoding) ==
    [key |-> user.id, value |-> stored_encoding]

(***************************************************************************)
(* advanced_face_match.py: is_face_duplicate, one shared-memory access per *)
(* step.  A query is [file, swapped]: the decoded image, and the encoding  *)
(* the library gives for it with the colour channels exchanged, because    *)
(* the scan hands get_face_encoding the output of preprocess_image and     *)
(* get_face_encoding converts BGR to RGB once more.  The locals of a call: *)
(*   pc: "loop" (at the head of the for loop), "store" (about to write the *)
(*   cache), "open", "dump", "write", "close" (inside save_face_encodings) *)
(*   and "done"; cursor: the position in users_with_faces; sims: the       *)
(*   similarity computed for each identity compared, in order; derived:    *)
(*   how many stored encodings the call computed from the image itself;    *)
(*   concurrent: whether another call was in its loop or its save while    *)
(*   this one was; faults: where the libraries raise during the call.      *)
(***************************************************************************)
ScanIdle ==
    [pc |-> "idle", encoding |-> NoEnc, cursor |-> 1, stored_encoding |-> NoEnc,
     best_match |-> NoUser, best_similarity |-> -100, sims |-> <<>>,
     keys |-> {}, snapshot |-> EmptyDict, ret |-> NoDuplicate, derived |-> 0,
     concurrent |-> FALSE, faults |-> NoFaults]

\* a scan that keeps the identity compared last
is_latest(similarity, best_similarity) == TRUE

\* if similarity > best_similarity
is_better(similarity, best_similarity) == similarity > best_similarity

\* get_face_encoding(preprocess_image(image))
query_encoding(q) == IF imread_ok(q.file) THEN q.swapped ELSE NoEnc

\* lines 208-227: up to the head of the loop
adv_scan_begin(q) ==
    IF ~imread_ok(q.file) THEN [ScanIdle EXCEPT !.pc = "done"]
    ELSE IF query_encoding(q) = NoEnc THEN [ScanIdle EXCEPT !.pc = "done"]
    ELSE [ScanIdle EXCEPT !.pc = "loop", !.encoding = query_encoding(q)]

\* lines 250-256: compare, keep the best, move to the next user
adv_scan_compare(s, user, stored_encoding) ==
    LET r == compare_faces(stored_encoding, s.encoding, DuplicateTolerance,
                           s.faults[user.id] = "compare")
        better == is_better(r.similarity, s.best_similarity)
    IN  [s EXCEPT !.pc = "loop",
                  !.cursor = s.cursor + 1,
                  !.sims = Append(s.sims, <<user.id, r.similarity>>),
                  !.best_similarity = IF better THEN r.similarity ELSE s.best_similarity,
                  !.best_match = IF better THEN user.id ELSE s.best_match]

\* lines 261-264
adv_scan_return(s) ==
    [s EXCEPT !.pc = "done",
              !.ret = [is_duplicate |-> s.best_similarity >= DuplicateTolerance,
                       best_match |-> s.best_match]]

\* one step of a call: the locals s and the shared g = [cache, file] after it
adv_scan_step(s, g, coll, fs) ==
    LET cursor == find_with_image_path(coll)
        user == cursor[s.cursor]
        file == fs[user.image_path]
        skip == [s EXCEPT !.cursor = s.cursor + 1]
        stored_encoding == get_face_encoding(file, s.faults[user.id] = "encode")
    IN  CASE s.pc = "loop" ->
                [g |-> g,
                 s |-> IF s.cursor > Len(cursor) THEN [s EXCEPT !.pc = "open"]
                       ELSE IF ~path_exists(file) THEN skip
                       ELSE IF user.id \in DOMAIN g.cache
                            THEN adv_scan_compare(s, user, g.cache[user.id])
                       ELSE IF ~imread_ok(file) THEN skip
                       ELSE IF stored_encoding = NoEnc THEN skip
                       ELSE [s EXCEPT !.pc = "store", !.stored_encoding = stored_encoding]]
          [] s.pc = "store" ->
                LET e == cache_entry(user, s.stored_encoding, s.encoding)
                IN  [g |-> [g EXCEPT !.cache = dict_store(g.cache, e.key, e.value)],
                     s |-> adv_scan_compare([s EXCEPT !.derived = s.derived + 1], user,
                                            s.stored_encoding)]
          [] s.pc = "open" ->
                \* open("face_encodings.p", 'wb') truncates the file
                [g |-> [g EXCEPT !.file = EmptyFile], s |-> [s EXCEPT !.pc = "dump"]]
          [] s.pc = "dump" ->
                \* pickle.dump starts to iterate the dictionary
                [g |-> g, s |-> [s EXCEPT !.pc = "write", !.keys = DOMAIN g.cache]]
          [] s.pc = "write" ->
                \* a dictionary that changed size under the iteration raises; the
                \* exception is caught in save_face_encodings and nothing is written
                [g |-> g,
                 s |-> IF DOMAIN g.cache # s.keys THEN adv_scan_return(s)
                       ELSE [s EXCEPT !.pc = "close", !.snapshot = g.cache]]
          [] s.pc = "close" ->
                \* leaving the with block flushes what was pickled
                [g |-> [g EXCEPT !.file = PickleFile(s.snapshot)], s |-> adv_scan_return(s)]

\* the call run to its end without interruption
RECURSIVE adv_scan_run(_, _, _, _)
adv_scan_run(s, g, coll, fs) ==
    IF s.pc = "done" THEN [g |-> g, s |-> s]
    ELSE LET n == adv_scan_step(s, g, coll, fs)
         IN  adv_scan_run(n.s, n.g, coll, fs)

adv_is_face_duplicate(q, g, coll, fs, faults) ==
    adv_scan_run([adv_scan_begin(q) EXCEPT !.faults = faults], g, coll, fs)


(***************************************************************************)
(* Inputs of one duplicate scan: a corpus, a query and, for the cascade    *)
(* engines, the measurement of each user's crop against the query's.       *)
(***************************************************************************)
\* a corpus over the files F: each user has no image_path, or one that leads to a file of F
CorpusEntries(F) ==
    {[has |-> FALSE, file |-> MissingFile]} \cup {[has |-> TRUE, file |-> f] : f \in F}
Corpora(F) == [UserIds -> CorpusEntries(F)]
users_of(c) == [i \in UserIds |-> [id |-> i, image_path |-> IF c[i].has THEN i ELSE NoPath]]
files_of(c) == [i \in UserIds |-> c[i].file]

ScanFaces == {f \in VerifyFaces : f.tex = 1}
ScanCascadeFiles ==
    {MissingFile, UnreadableFile} \cup {ImageFile(f, NoEnc) : f \in ScanFaces \cup {NoFace}}
ScanCascadeQueries ==
    {[file |-> f, swapped |-> NoEnc] : f \in ScanCascadeFiles \ {MissingFile}}

ScanMeasurementTables(face, c) ==
    {ms \in [UserIds -> DiagonalMeasurements \cup {SelfMeasurement}] :
        \A i \in UserIds : ms[i] \in MeasurementsOf(face, c[i].file.face, TRUE)}

\* the libraries raise while the scan works on at most one identity
FaultTables(kinds) ==
    {NoFaults} \cup {[i \in UserIds |-> IF i = u THEN k ELSE "none"] : u \in UserIds, k \in kinds}

\* embedding engine: a query without a face has none with its channels exchanged either
ScanAdvQueries ==
    {[file |-> UnreadableFile, swapped |-> NoEnc], [file |-> ImageFile(NoFace, NoEnc), swapped |-> NoEnc]}
    \cup {[file |-> ImageFile(AdvCrop(e), e), swapped |-> s] :
            e \in Encodings, s \in EncodingsOrNone}

(***************************************************************************)
(* SpecScan: one call of is_face_duplicate on a drawn corpus and query,    *)
(* the embedding engine starting from an empty cache and no cache file.    *)
(***************************************************************************)
\* the corpus and the call: users, files and scanIn
DrawScan(c, engine, q, ms, cascadesLoaded, faults) ==
    /\ users = users_of(c)
    /\ files = files_of(c)
    /\ scanIn = [engine |-> engine, q |-> q, ms |-> ms, cascadesLoaded |-> cascadesLoaded,
                 faults |-> faults]

InitScanFM ==
    \E c \in Corpora(ScanCascadeFiles), q \in ScanCascadeQueries, l \in BOOLEAN :
        \E ms \in ScanMeasurementTables(q.file.face, c),
           f \in FaultTables({"body", "detect", "score"}) :
            DrawScan(c, "face_match", q, ms, l, f)

InitScanSimple ==
    \E c \in Corpora(ScanCascadeFiles), q \in ScanCascadeQueries :
        \E ms \in ScanMeasurementTables(q.file.face, c),
           f \in FaultTables({"body", "detect", "score"}) :
            DrawScan(c, "simple", q, ms, TRUE, f)

InitScanAdvanced ==
    \E c \in Corpora(AdvFiles), q \in ScanAdvQueries, f \in FaultTables({"encode", "compare"}) :
        DrawScan(c, "advanced", q, <<>>, TRUE, f)

InitScan ==
    /\ InitScanFM \/ InitScanSimple \/ InitScanAdvanced
    /\ scanOut = Pending
    /\ known_face_encodings = EmptyDict
    /\ cacheFile = AbsentFile
    /\ scan = <<>> /\ calls = 0
    /\ scoreIn = Idle /\ scoreOut = Pending /\ verifyIn = Idle /\ verifyOut = Pending

ScanFM ==
    /\ scanIn.engine = "face_match" /\ scanOut = Pending
    /\ LET r == fm_is_face_duplicate(scanIn.q.file, users, files, scanIn.ms,
                                     scanIn.cascadesLoaded, scanIn.faults)
       IN  /\ scanOut' = [fn |-> "is_face_duplicate", ret |-> r.ret]
           /\ scan' = r
    /\ UNCHANGED <<callVars, calls, users, files, known_face_encodings, cacheFile, scanIn>>

ScanSimple ==
    /\ scanIn.engine = "simple" /\ scanOut = Pending
    /\ LET r == simple_is_face_duplicate(scanIn.q.file, users, files, scanIn.ms,
                                         scanIn.faults)
       IN  /\ scanOut' = [fn |-> "is_face_duplicate", ret |-> r.ret]
           /\ scan' = r
    /\ UNCHANGED <<callVars, calls, users, files, known_face_encodings, cacheFile, scanIn>>

ScanAdvanced ==
    /\ scanIn.engine = "advanced" /\ scanOut = Pending
    /\ LET r == adv_is_face_duplicate(scanIn.q,
                                      [cache |-> known_face_encodings, file |-> cacheFile],
                                      users, files, scanIn.faults)
       IN  /\ scanOut' = [fn |-> "is_face_duplicate", ret |-> r.s.ret]
           /\ scan' = r.s
           /\ known_face_encodings' = r.g.cache
           /\ cacheFile' = r.g.file
    /\ UNCHANGED <<callVars, calls, users, files, scanIn>>

NextScan ==
    \/ ScanFM
    \/ ScanSimple
    \/ ScanAdvanced

SpecScan == InitScan /\ [][NextScan]_vars


(***************************************************************************)
(* What a duplicate scan met, read off its inputs.                         *)
(***************************************************************************)
ScanCalled == scanOut # Pending

\* the face of an image as the engine of the call sees it
EngineSeesFace(file) ==
    /\ imread_ok(file)
    /\ IF scanIn.engine = "advanced" THEN file.enc # NoEnc ELSE ~IsNone(file.face)

\* the identities a scan can compare: image_path set, file decodable, face found
Comparable(i) ==
    /\ users[i].image_path # NoPath
    /\ EngineSeesFace(files[i])
    /\ scanIn.faults[i] \notin {"body", "detect", "encode"}

\* the similarity the engine of the call computes between the query and user i
SimilarityTo(i) ==
    CASE scanIn.engine = "face_match" ->
            compute_similarity_multiple(scanIn.q.file.face, files[i].face, scanIn.ms[i],
                                        scanIn.cascadesLoaded,
                                        scanIn.faults[i] = "score").best_score
      [] scanIn.engine = "simple" ->
            simple_compute_similarity(scanIn.q.file.face, files[i].face, scanIn.ms[i],
                                      scanIn.faults[i] = "score")
      [] scanIn.engine = "advanced" ->
            compare_faces(files[i].enc, query_encoding(scanIn.q), DuplicateTolerance,
                          scanIn.faults[i] = "compare").similarity

\* the threshold the engine of the call scans with
ScanThreshold ==
    CASE scanIn.engine = "face_match" -> DuplicateThreshold
      [] scanIn.engine = "simple" -> SimpleDuplicateThreshold
      [] scanIn.engine = "advanced" -> DuplicateTolerance

\* user d holds the very image of the query, no other user does, and every other
\* identity scores strictly lower than d
OnlyTrueDuplicate(d) ==
    /\ Comparable(d)
    /\ files[d] = scanIn.q.file
    /\ \A i \in UserIds \ {d} :
        Comparable(i) => (files[i] # scanIn.q.file /\ SimilarityTo(i) < SimilarityTo(d))

QueryEncoded ==
    IF scanIn.engine = "advanced" THEN query_encoding(scanIn.q) # NoEnc
    ELSE EngineSeesFace(scanIn.q.file)

(***************************************************************************)
(* C8: when the corpus holds exactly one true duplicate of the query face, *)
(* is_face_duplicate returns that identity if its threshold lies below the *)
(* duplicate's similarity, wherever the duplicate stands in the iteration  *)
(* order, and returns no match if its threshold lies above it.             *)
(***************************************************************************)
C8_ScanReturnsTheDuplicate ==
    \A d \in UserIds :
        (ScanCalled /\ QueryEncoded /\ OnlyTrueDuplicate(d)) =>
            /\ ScanThreshold < SimilarityTo(d) =>
                    scanOut.ret = [is_duplicate |-> TRUE, best_match |-> d]
            /\ ScanThreshold > SimilarityTo(d) => ~scanOut.ret.is_duplicate


(***************************************************************************)
(* Spec: the embedding engine serving duplicate scans from two request     *)
(* threads over one corpus, one cache dictionary and one cache file.  The  *)
(* module is loaded with no cache file or an unreadable one; each thread   *)
(* runs one scan, a step at a time; the process may stop at any moment and *)
(* start again, which loads the cache from the file.                       *)
(***************************************************************************)
Threads == 1..2

\* user i registered an image without a face, or one whose encoding is i
ConcFiles(i) ==
    {MissingFile, UnreadableFile, ImageFile(NoFace, NoEnc),
     ImageFile(AdvCrop(i % (MaxEnc + 1)), i % (MaxEnc + 1))}
ConcCorpora ==
    {c \in [UserIds -> CorpusEntries(AdvFiles)] : \A i \in UserIds : c[i].file \in ConcFiles(i)}

ConcQueries ==
    {[file |-> UnreadableFile, swapped |-> NoEnc]}
    \cup {[file |-> ImageFile(AdvCrop(e), e), swapped |-> e] : e \in {NoEnc, 0, MaxEnc}}

Init ==
    /\ \E c \in ConcCorpora : users = users_of(c) /\ files = files_of(c)
    /\ cacheFile \in {AbsentFile, EmptyFile}
    /\ known_face_encodings = load_face_encodings(cacheFile)
    /\ scan = [t \in Threads |-> ScanIdle]
    /\ scanIn = [t \in Threads |-> Idle]
    /\ scanOut = Pending /\ calls = 0
    /\ scoreIn = Idle /\ scoreOut = Pending /\ verifyIn = Idle /\ verifyOut = Pending

\* a request thread enters is_face_duplicate with a query image
ScanStart(t) ==
    /\ scan[t].pc = "idle"
    /\ \E q \in ConcQueries :
        LET began == adv_scan_begin(q)
            running == {u \in Threads \ {t} : scan[u].pc \notin {"idle", "done"}}
            overlap == began.pc = "loop" /\ running # {}
        IN  /\ scanIn' = [scanIn EXCEPT ![t] = q]
            /\ scan' = [u \in Threads |->
                            IF u = t THEN [began EXCEPT !.concurrent = overlap]
                            ELSE IF overlap /\ u \in running
                                THEN [scan[u] EXCEPT !.concurrent = TRUE]
                            ELSE scan[u]]
    /\ UNCHANGED <<callVars, calls, users, files, known_face_encodings, cacheFile, scanOut>>

\* thread t takes the step it stands at
ScanStepAt(t, pc) ==
    /\ scan[t].pc = pc
    /\ LET n == adv_scan_step(scan[t], [cache |-> known_face_encodings, file |-> cacheFile],
                              users, files)
       IN  /\ scan' = [scan EXCEPT ![t] = n.s]
           /\ known_face_encodings' = n.g.cache
           /\ cacheFile' = n.g.file
    /\ UNCHANGED <<callVars, calls, users, files, scanIn, scanOut>>

ScanLoop(t) == ScanStepAt(t, "loop")
ScanStore(t) == ScanStepAt(t, "store")
SaveOpen(t) == ScanStepAt(t, "open")
SaveDump(t) == ScanStepAt(t, "dump")
SaveWrite(t) == ScanStepAt(t, "write")
SaveClose(t) == ScanStepAt(t, "close")

\* the server process stops and is started again: the scans in flight are lost,
\* the returned ones stay returned, and the module load reads the cache file
Restart ==
    /\ known_face_encodings' = load_face_encodings(cacheFile)
    /\ scan' = [t \in Threads |-> IF scan[t].pc = "done" THEN scan[t] ELSE ScanIdle]
    /\ scanIn' = [t \in Threads |-> IF scan[t].pc = "done" THEN scanIn[t] ELSE Idle]
    /\ UNCHANGED <<callVars, calls, users, files, cacheFile, scanOut>>

Next ==
    \/ \E t \in Threads : ScanStart(t)
    \/ \E t \in Threads : ScanLoop(t)
    \/ \E t \in Threads : ScanStore(t)
    \/ \E t \in Threads : SaveOpen(t)
    \/ \E t \in Threads : SaveDump(t)
    \/ \E t \in Threads : SaveWrite(t)
    \/ \E t \in Threads : SaveClose(t)
    \/ Restart

Spec == Init /\ [][Next]_vars


(***************************************************************************)
(* What the scans of Spec met.                                             *)
(***************************************************************************)
ScanDone(t) == scan[t].pc = "done"

\* the scan of thread t got past the encoding of its query and ran the loop
ScanRan(t) == ScanDone(t) /\ scan[t].encoding # NoEnc

\* the identities a scan encodes: image_path set, file decodable, face found
Encodable(i) ==
    /\ users[i].image_path # NoPath
    /\ imread_ok(files[i])
    /\ get_face_encoding(files[i], FALSE) # NoEnc

(***************************************************************************)
(* C9: over an unchanged corpus a duplicate scan returns the same decision *)
(* and computes the same similarities whether it derives every encoding    *)
(* itself (cache empty) or finds the encodings of an earlier scan in the   *)
(* cache: two completed scans of the same query agree on the pair they     *)
(* return and on the similarity computed for each identity.                *)
(***************************************************************************)
C9_ColdAndWarmScansAgree ==
    \A t1, t2 \in Threads :
        (ScanDone(t1) /\ ScanDone(t2) /\ scanIn[t1] = scanIn[t2]) =>
            /\ scan[t1].ret = scan[t2].ret
            /\ scan[t1].sims = scan[t2].sims
            /\ scan[t1].best_similarity = scan[t2].best_similarity

\* one scan derived every encoding it compared, the other scan of the same query
\* took every encoding from the cache, and the query was declared a duplicate
C9_Witness ==
    \E t1, t2 \in Threads :
        /\ ScanRan(t1) /\ ScanRan(t2) /\ scanIn[t1] = scanIn[t2]
        /\ Len(scan[t1].sims) = NumUsers /\ scan[t1].derived = NumUsers
        /\ Len(scan[t2].sims) = NumUsers /\ scan[t2].derived = 0
        /\ scan[t2].ret.is_duplicate

(***************************************************************************)
(* C10: after two duplicate scans have run concurrently over the same      *)
(* corpus, whatever the interleaving of their cache reads, cache writes    *)
(* and flushes, the in-memory cache and the cache file each hold exactly   *)
(* one entry per scanned identity, namely the encoding of its image: no    *)
(* entry is missing, none is duplicated and none belongs to anyone else.   *)
(***************************************************************************)
C10_ConcurrentScansKeepEveryEntry ==
    (\A t \in Threads : ScanRan(t)) =>
        LET scanned == {i \in UserIds : Encodable(i)}
            complete(d) ==
                /\ DOMAIN d = scanned
                /\ Cardinality(DOMAIN d) = Cardinality(scanned)
                /\ \A i \in scanned : d[i] = get_face_encoding(files[i], FALSE)
        IN  /\ complete(known_face_encodings)
            /\ cacheFile.st = "ok"
            /\ complete(cacheFile.data)

\* the two scans overlapped, ran to their end and each of them wrote the cache,
\* over a corpus in which every identity can be encoded
C10_Witness ==
    /\ \A t \in Threads : ScanRan(t) /\ scan[t].concurrent /\ scan[t].derived > 0
    /\ Cardinality({i \in UserIds : Encodable(i)}) = NumUsers


(***************************************************************************)
(* Image paths and cache keys.  Two writers give a user an image_path:     *)
(* advanced_face_match.save_user_face writes static/faces/<id>.jpg, and    *)
(* the server's face_scan and face_recognize routes write                  *)
(* static/faces/user_<id>.jpg.  The first path of user i is written i and  *)
(* the second -i.  A cache key is the string under which an encoding is    *)
(* kept: "<id>" is written i and "user_<id>" is written -i.                *)
(***************************************************************************)
engine_face_file(user_id) == user_id
server_face_file(user_id) == 0 - user_id
FacePaths == {engine_face_file(i) : i \in UserIds} \cup {server_face_file(i) : i \in UserIds}

\* str(user["_id"]), the key of is_face_duplicate and save_user_face
id_key(user_id) == user_id

\* os.path.basename(stored_image_path).split('.')[0], the key of verify_face
basename_key(stored_image_path) == stored_image_path

\* the identity a cache key speaks of
identity_of_key(key) == Abs(key)

(***************************************************************************)
(* The engine calls of SpecCache, each run to its end.  A call leaves its  *)
(* arguments in scanIn and what it returned in scanOut.                    *)
(***************************************************************************)
\* save_face_encodings without an interleaving writer
save_face_encodings(cache) == PickleFile(cache)

\* the images users register and present: without a face, or with one of two faces
LifeImages == {ImageFile(AdvCrop(e), e) : e \in {NoEnc, 0, MaxEnc}}

\* advanced_face_match.py: save_user_face(image_path, user_id), image the file at image_path
adv_save_user_face(image, user_id, st) ==
    IF ~imread_ok(image) THEN [st EXCEPT !.ret = FALSE]
    ELSE IF get_face_encoding(image, FALSE) = NoEnc THEN [st EXCEPT !.ret = FALSE]
    ELSE
        LET cache == dict_store(st.cache, id_key(user_id), get_face_encoding(image, FALSE))
        IN  [ret |-> TRUE,
             files |-> [st.files EXCEPT ![engine_face_file(user_id)] = image],
             users |-> [st.users EXCEPT ![user_id].image_path = engine_face_file(user_id)],
             cache |-> cache,
             file |-> save_face_encodings(cache)]

\* server.py: face_scan and face_recognize store the upload and set image_path
server_register(image, user_id, st) ==
    [st EXCEPT !.ret = TRUE,
               !.files[server_face_file(user_id)] = image,
               !.users[user_id].image_path = server_face_file(user_id)]

\* server.py: delete_face removes the image file and unsets image_path
server_delete_face(user_id, st) ==
    LET path == st.users[user_id].image_path
    IN  [st EXCEPT !.ret = TRUE,
                   !.files = IF path # NoPath /\ path_exists(st.files[path])
                                THEN [st.files EXCEPT ![path] = MissingFile]
                                ELSE st.files,
                   !.users[user_id].image_path = NoPath]

\* the arguments verify_face meets for a stored path: the files and the cache entry
adv_verify_args(image, stored_image_path, st) ==
    [engine |-> "advanced", stored |-> st.files[stored_image_path], image |-> image,
     threshold |-> DuplicateTolerance, m |-> SelfMeasurement,
     cached |-> IF basename_key(stored_image_path) \in DOMAIN st.cache
                    THEN st.cache[basename_key(stored_image_path)] ELSE NoEnc,
     fault |-> "none"]

\* advanced_face_match.py: verify_face with the cache write of lines 375-376
adv_verify_and_store(image, stored_image_path, st) ==
    LET r == adv_verify_face(adv_verify_args(image, stored_image_path, st))
        cache == dict_store(st.cache, basename_key(stored_image_path), r.store)
    IN  IF r.store = NoEnc THEN [st EXCEPT !.ret = r.ret]
        ELSE [st EXCEPT !.ret = r.ret, !.cache = cache, !.file = save_face_encodings(cache)]


\* the scan run to its end, the cursor over the users raising when it is asked for
\* the user at position failAt (0: it never raises); the exception is caught at
\* line 265 and the call returns (False, None) without reaching save_face_encodings
RECURSIVE adv_scan_run_faulty(_, _, _, _, _)
adv_scan_run_faulty(s, g, coll, fs, failAt) ==
    IF s.pc = "done" THEN [g |-> g, s |-> s]
    ELSE IF s.pc = "loop" /\ s.cursor = failAt
        THEN [g |-> g, s |-> [s EXCEPT !.pc = "done", !.ret = NoDuplicate]]
    ELSE LET n == adv_scan_step(s, g, coll, fs)
         IN  adv_scan_run_faulty(n.s, n.g, coll, fs, failAt)

(***************************************************************************)
(* SpecCache: one process of the embedding engine serving registrations,   *)
(* deletions, duplicate scans and verifications one after the other, from  *)
(* a start with no registered face and no readable cache file.             *)
(***************************************************************************)
MaxCalls == 4               \* engine calls in a behaviour

CacheState == [users |-> users, files |-> files, cache |-> known_face_encodings,
               file |-> cacheFile, ret |-> FALSE]

\* the call fn with arguments args took the state to st
Served(fn, args, st) ==
    /\ calls' = calls + 1
    /\ users' = st.users
    /\ files' = st.files
    /\ known_face_encodings' = st.cache
    /\ cacheFile' = st.file
    /\ scanIn' = [fn |-> fn] @@ args
    /\ scanOut' = [fn |-> fn, ret |-> st.ret]
    /\ UNCHANGED callVars

InitCache ==
    /\ users = [i \in UserIds |-> [id |-> i, image_path |-> NoPath]]
    /\ files = [p \in FacePaths |-> MissingFile]
    /\ cacheFile \in {AbsentFile, EmptyFile}
    /\ known_face_encodings = load_face_encodings(cacheFile)
    /\ scan = ScanIdle
    /\ scanIn = Idle /\ scanOut = Pending /\ calls = 0
    /\ scoreIn = Idle /\ scoreOut = Pending /\ verifyIn = Idle /\ verifyOut = Pending

SaveUserFace ==
    /\ calls < MaxCalls
    /\ \E u \in UserIds, image \in LifeImages \cup {UnreadableFile} :
        /\ Served("save_user_face", [user |-> u, image |-> image],
                  adv_save_user_face(image, u, CacheState))
        /\ UNCHANGED scan

ServerRegister ==
    /\ calls < MaxCalls
    /\ \E u \in UserIds, image \in LifeImages :
        /\ Served("face_scan", [user |-> u, image |-> image],
                  server_register(image, u, CacheState))
        /\ UNCHANGED scan

DeleteFace ==
    /\ calls < MaxCalls
    /\ \E u \in UserIds :
        /\ Served("delete_face", [user |-> u], server_delete_face(u, CacheState))
        /\ UNCHANGED scan

DuplicateScan ==
    /\ calls < MaxCalls
    /\ \E q \in {[file |-> image, swapped |-> image.enc] : image \in LifeImages},
          failAt \in 0..NumUsers :
        LET r == adv_scan_run_faulty(adv_scan_begin(q),
                                     [cache |-> known_face_encodings, file |-> cacheFile],
                                     users, files, failAt)
        IN  /\ Served("is_face_duplicate", [q |-> q, failAt |-> failAt],
                      [CacheState EXCEPT !.cache = r.g.cache, !.file = r.g.file,
                                         !.ret = r.s.ret])
            /\ scan' = r.s

\* the server verifies against the image_path of the user, when that file exists
VerifyFace ==
    /\ calls < MaxCalls
    /\ \E u \in UserIds, image \in LifeImages :
        /\ users[u].image_path # NoPath
        /\ path_exists(files[users[u].image_path])
        /\ Served("verify_face",
                  adv_verify_args(image, users[u].image_path, CacheState) @@ [user |-> u],
                  adv_verify_and_store(image, users[u].image_path, CacheState))
        /\ UNCHANGED scan

NextCache ==
    \/ SaveUserFace
    \/ ServerRegister
    \/ DeleteFace
    \/ DuplicateScan
    \/ VerifyFace

SpecCache == InitCache /\ [][NextCache]_vars

(***************************************************************************)
(* C11: after any sequence of save_user_face, is_face_duplicate and        *)
(* verify_face calls the encoding cache holds at most one entry per        *)
(* identity, because every call keeps an identity's encoding under the     *)
(* same key.                                                               *)
(***************************************************************************)
C11_OneCacheEntryPerIdentity ==
    \A k1, k2 \in DOMAIN known_face_encodings :
        identity_of_key(k1) = identity_of_key(k2) => k1 = k2


(***************************************************************************)
(* What the calls of SpecCache met.                                        *)
(***************************************************************************)
LastCall(fn) == scanOut.fn = fn

\* the encoding of the image user i has registered now
CurrentEncoding(i) == get_face_encoding(files[users[i].image_path], FALSE)

\* the identities the last duplicate scan compared the query with
ComparedByScan == {scan.sims[n][1] : n \in DOMAIN scan.sims}

(***************************************************************************)
(* C12: a cached encoding is never used once the identity's registered     *)
(* image has changed: the duplicate scan or verification that touches the  *)
(* identity compares with the encoding of the current image and leaves     *)
(* that encoding in the cache.                                             *)
(***************************************************************************)
C12_StaleEntryIsRecomputed ==
    /\ LastCall("is_face_duplicate") =>
        \A n \in DOMAIN scan.sims :
            LET i == scan.sims[n][1]
            IN  /\ scan.sims[n][2] = compare_faces(CurrentEncoding(i), scan.encoding,
                                                   DuplicateTolerance, FALSE).similarity
                /\ known_face_encodings[id_key(i)] = CurrentEncoding(i)
    /\ (LastCall("verify_face") /\ scanOut.ret.method = "face_recognition") =>
        LET path == users[scanIn.user].image_path
        IN  /\ scanOut.ret.similarity =
                    compare_faces(get_face_encoding(files[path], FALSE),
                                  get_face_encoding(scanIn.image, FALSE),
                                  scanIn.threshold, FALSE).similarity
            /\ known_face_encodings[basename_key(path)] = get_face_encoding(files[path], FALSE)


(***************************************************************************)
(* What a scan met on one identity.                                        *)
(***************************************************************************)
\* the scan cannot score user i: the reference image is missing or unreadable, no
\* face is found in it, or a library call raises while the scan works on it
FailsOn(i) ==
    /\ users[i].image_path # NoPath
    /\ ~EngineSeesFace(files[i]) \/ scanIn.faults[i] # "none"

Healthy(i) == Comparable(i) /\ scanIn.faults[i] = "none"

\* the score is a duplicate's for the engine of the call
ClearsThreshold(x) ==
    IF scanIn.engine = "advanced" THEN x >= ScanThreshold ELSE x > ScanThreshold

(***************************************************************************)
(* C13: a failure on one identity (reference image missing or unreadable,  *)
(* no face detected, encoding or scoring error) never aborts a duplicate   *)
(* scan: every identity that can be scored is scored unless the scan had   *)
(* returned a duplicate standing before it, and when an identity that can  *)
(* be scored clears the threshold the scan reports a duplicate, whatever   *)
(* failed before it.                                                       *)
(***************************************************************************)
C13_FailureSkipsTheIdentity ==
    (ScanCalled /\ QueryEncoded) =>
        \A d \in UserIds :
            Healthy(d) =>
                /\ \/ d \in ComparedByScan
                   \/ scanOut.ret.is_duplicate /\ scanOut.ret.best_match < d
                /\ ClearsThreshold(SimilarityTo(d)) => scanOut.ret.is_duplicate

\* a scan that met a failing identity and found the duplicate standing after it
C13_Witness ==
    /\ ScanCalled /\ QueryEncoded
    /\ \E f, d \in UserIds :
        /\ f < d
        /\ FailsOn(f) /\ scanIn.faults[f] # "none"
        /\ Healthy(d) /\ ClearsThreshold(SimilarityTo(d))
        /\ scanOut.ret = [is_duplicate |-> TRUE, best_match |-> d]


(***************************************************************************)
(* The early-exit engines.                                                 *)
(***************************************************************************)
EarlyExitScan == ScanCalled /\ scanIn.engine \in {"face_match", "simple"}

Last(seq) == seq[Len(seq)]

(***************************************************************************)
(* C14: an early-exit scan (face_match.py, simple_face_match.py) that      *)
(* reports a duplicate reports the first identity, in iteration order,     *)
(* whose fused score is over the duplicate threshold: that identity is the *)
(* last one the loop visited and the last one scored, and every identity   *)
(* scored before it scored at or below the threshold.  A scan that reports *)
(* no duplicate scored every identity at or below the threshold.           *)
(***************************************************************************)
C14_EarlyExitReturnsTheFirst ==
    EarlyExitScan =>
        IF scanOut.ret.is_duplicate
            THEN /\ scan.visited # <<>> /\ Last(scan.visited) = scanOut.ret.best_match
                 /\ scan.sims # <<>> /\ Last(scan.sims)[1] = scanOut.ret.best_match
                 /\ Last(scan.sims)[2] > ScanThreshold
                 /\ Last(scan.sims)[2] = SimilarityTo(scanOut.ret.best_match)
                 /\ \A n \in 1..(Len(scan.sims) - 1) : scan.sims[n][2] <= ScanThreshold
                 /\ \A i \in UserIds :
                        (i < scanOut.ret.best_match /\ Comparable(i)) =>
                            /\ i \in ComparedByScan
                            /\ SimilarityTo(i) <= ScanThreshold
            ELSE \A n \in 1..Len(scan.sims) : scan.sims[n][2] <= ScanThreshold

\* the scan stopped at an identity although a later one is over the threshold too
C14_Witness ==
    /\ EarlyExitScan /\ scanOut.ret.is_duplicate
    /\ \E i, j \in UserIds :
        /\ i = scanOut.ret.best_match /\ i < j
        /\ Healthy(j) /\ SimilarityTo(j) > ScanThreshold
        /\ j \notin ComparedByScan


(***************************************************************************)
(* The best-of-corpus engine.                                              *)
(***************************************************************************)
BestOfCorpusScan == ScanCalled /\ scanIn.engine = "advanced" /\ QueryEncoded

ComparableIds == {i \in UserIds : Comparable(i)}

\* the highest similarity between the query and a comparable identity
HighestSimilarity == MaxOfSet({SimilarityTo(i) : i \in ComparableIds})

(***************************************************************************)
(* C15: the best-of-corpus scan (advanced_face_match.py) compares the      *)
(* query with every identity that has a usable reference image; it returns *)
(* the identity of the highest similarity (the first of them in iteration  *)
(* order when several share it) as a duplicate if that similarity reaches  *)
(* the threshold, and reports no duplicate if it does not.                 *)
(***************************************************************************)
C15_BestOfCorpusReturnsTheHighest ==
    BestOfCorpusScan =>
        /\ \A i \in ComparableIds :
                \E n \in DOMAIN scan.sims : scan.sims[n] = <<i, SimilarityTo(i)>>
        /\ ComparedByScan = ComparableIds
        /\ IF ComparableIds # {} /\ HighestSimilarity >= ScanThreshold
              THEN /\ scanOut.ret.is_duplicate
                   /\ scanOut.ret.best_match \in ComparableIds
                   /\ SimilarityTo(scanOut.ret.best_match) = HighestSimilarity
                   /\ \A i \in ComparableIds :
                        i < scanOut.ret.best_match => SimilarityTo(i) < HighestSimilarity
              ELSE ~scanOut.ret.is_duplicate

\* two identities reach the threshold and the scan returns the later, better one
C15_Witness ==
    /\ BestOfCorpusScan
    /\ \E i, j \in ComparableIds :
        /\ i < j
        /\ SimilarityTo(i) >= ScanThreshold
        /\ SimilarityTo(j) > SimilarityTo(i)
        /\ scanOut.ret = [is_duplicate |-> TRUE, best_match |-> j]


\* compare_faces, at the tolerance of the scan, declares the query and user i a match
MatchAtTolerance(i) ==
    compare_faces(files[i].enc, query_encoding(scanIn.q), DuplicateTolerance,
                  scanIn.faults[i] = "compare").match

(***************************************************************************)
(* C16: the duplicate scan of the embedding engine applies the match rule  *)
(* of compare_faces and verify_face: it reports a duplicate exactly when   *)
(* compare_faces declares the query and some compared identity a match at  *)
(* the tolerance of the scan, that is when their embedding distance is     *)
(* within the tolerance.                                                   *)
(***************************************************************************)
C16_ScanAppliesTheMatchRule ==
    BestOfCorpusScan =>
        (scanOut.ret.is_duplicate <=> \E i \in ComparableIds : MatchAtTolerance(i))


(***************************************************************************)
(* C17: a duplicate scan that added entries to the in-memory cache leaves  *)
(* them in the cache file when it returns, whether it returns from the end *)
(* of the loop or through an error: the file then holds the dictionary.    *)
(***************************************************************************)
C17_ScanLeavesEntriesFlushed ==
    (LastCall("is_face_duplicate") /\ scan.derived > 0) =>
        cacheFile = PickleFile(known_face_encodings)


(***************************************************************************)
(* SpecLoad: the process of SpecCache started on any cache file: none, an  *)
(* empty or corrupt one (pickle.load raises), or one that unpickles to the *)
(* dictionary another version of the engine wrote, with entries that are   *)
(* not embeddings of this encoder.                                         *)
(***************************************************************************)
CorruptFile == [st |-> "corrupt", data |-> EmptyDict]
OtherVersionFiles ==
    {PickleFile([k \in {id_key(u) : u \in S} |-> OtherVersionEnc]) : S \in SUBSET UserIds \ {{}}}

InitLoad ==
    /\ users = [i \in UserIds |-> [id |-> i, image_path |-> NoPath]]
    /\ files = [p \in FacePaths |-> MissingFile]
    /\ cacheFile \in {AbsentFile, EmptyFile, CorruptFile} \cup OtherVersionFiles
    /\ known_face_encodings = load_face_encodings(cacheFile)
    /\ scan = ScanIdle
    /\ scanIn = Idle /\ scanOut = Pending /\ calls = 0
    /\ scoreIn = Idle /\ scoreOut = Pending /\ verifyIn = Idle /\ verifyOut = Pending

SpecLoad == InitLoad /\ [][NextCache]_vars

\* the entry is an embedding this version of the engine can compare
Readable(entry) == entry \in Encodings

(***************************************************************************)
(* C18: whatever cache file the engine was started on, an entry it cannot  *)
(* read does not survive the first use of its identity: after a duplicate  *)
(* scan the entry of every identity the scan compared, and after a         *)
(* verification that compared embeddings the entry of the verified         *)
(* identity, is an embedding computed by this version of the engine.       *)
(***************************************************************************)
C18_UnreadableEntriesAreRecomputed ==
    /\ LastCall("is_face_duplicate") =>
        \A i \in ComparedByScan : Readable(known_face_encodings[id_key(i)])
    /\ (LastCall("verify_face") /\ scanOut.ret.method = "face_recognition") =>
        Readable(known_face_encodings[basename_key(users[scanIn.user].image_path)])


(***************************************************************************)
(* Module initialization of the three engines: what runs when the module   *)
(* is imported.  env is what the start-up meets: face_cascade ("ok", the   *)
(* file "missing", or loaded "empty"), eye, nose and mouth ("ok", "empty", *)
(* or for nose and mouth the constructor "raises"), recognizer (the        *)
(* recognition model: cv2.face.LBPHFaceRecognizer_create, or the import of *)
(* face_recognition, "ok" or "raises"), mongo (the try block that builds   *)
(* the client, "ok" or "raises") and, for the embedding engine, the cache  *)
(* file.  The result says whether the import raised and what it loaded.    *)
(***************************************************************************)
ImportAborted(at) == [aborted |-> TRUE, at |-> at, cascadesLoaded |-> FALSE, cache |-> EmptyDict]
ImportDone(cascadesLoaded, cache) ==
    [aborted |-> FALSE, at |-> "none", cascadesLoaded |-> cascadesLoaded, cache |-> cache]

\* face_match.py, lines 15-62
fm_module_init(env) ==
    IF env.face_cascade = "missing" THEN ImportAborted("face_cascade")
    ELSE IF env.face_cascade = "empty" THEN ImportAborted("face_cascade")
    ELSE IF env.recognizer = "raises" THEN ImportAborted("recognizer")
    ELSE IF env.mongo = "raises" THEN ImportAborted("mongo")
    ELSE ImportDone(env.nose = "ok" /\ env.mouth = "ok", EmptyDict)

\* simple_face_match.py, lines 15-39
simple_module_init(env) ==
    IF env.face_cascade = "missing" THEN ImportAborted("face_cascade")
    ELSE IF env.face_cascade = "empty" THEN ImportAborted("face_cascade")
    ELSE IF env.mongo = "raises" THEN ImportAborted("mongo")
    ELSE ImportDone(TRUE, EmptyDict)

\* advanced_face_match.py, lines 6 and 17-38
adv_module_init(env) ==
    IF env.recognizer = "raises" THEN ImportAborted("recognizer")
    ELSE IF env.mongo = "raises" THEN ImportAborted("mongo")
    ELSE ImportDone(TRUE, load_face_encodings(env.cache_file))

(***************************************************************************)
(* SpecImport: one import of one engine in a drawn environment.            *)
(***************************************************************************)
StartupFiles == {AbsentFile, EmptyFile, CorruptFile} \cup OtherVersionFiles

ImportEnvs(engine) ==
    [engine : {engine},
     face_cascade : IF engine = "advanced" THEN {"ok"} ELSE {"ok", "missing", "empty"},
     eye : IF engine = "advanced" THEN {"ok"} ELSE {"ok", "empty"},
     nose : IF engine = "face_match" THEN {"ok", "empty", "raises"} ELSE {"ok"},
     mouth : IF engine = "face_match" THEN {"ok", "empty", "raises"} ELSE {"ok"},
     recognizer : IF engine = "simple" THEN {"ok"} ELSE {"ok", "raises"},
     mongo : {"ok", "raises"},
     cache_file : IF engine = "advanced" THEN StartupFiles ELSE {AbsentFile}]

InitImport ==
    /\ scanIn \in ImportEnvs("face_match") \cup ImportEnvs("simple") \cup ImportEnvs("advanced")
    /\ cacheFile = scanIn.cache_file
    /\ scanOut = Pending
    /\ known_face_encodings = EmptyDict
    /\ users = [i \in UserIds |-> [id |-> i, image_path |-> NoPath]]
    /\ files = [p \in FacePaths |-> MissingFile]
    /\ scan = ScanIdle /\ calls = 0
    /\ scoreIn = Idle /\ scoreOut = Pending /\ verifyIn = Idle /\ verifyOut = Pending

\* the import ended with r
Imported(r) ==
    /\ scanOut' = [fn |-> "import", ret |-> r]
    /\ known_face_encodings' = r.cache
    /\ UNCHANGED <<callVars, calls, users, files, cacheFile, scan, scanIn>>

ImportFM ==
    /\ scanIn.engine = "face_match" /\ scanOut = Pending
    /\ Imported(fm_module_init(scanIn))

ImportSimple ==
    /\ scanIn.engine = "simple" /\ scanOut = Pending
    /\ Imported(simple_module_init(scanIn))

ImportAdvanced ==
    /\ scanIn.engine = "advanced" /\ scanOut = Pending
    /\ Imported(adv_module_init(scanIn))

NextImport ==
    \/ ImportFM
    \/ ImportSimple
    \/ ImportAdvanced

SpecImport == InitImport /\ [][NextImport]_vars

\* the detection or encoding model of the engine failed to load
ModelFailedToLoad == scanIn.face_cascade # "ok" \/ scanIn.recognizer # "ok"

(***************************************************************************)
(* C19: the import of an engine aborts exactly when its detection or       *)
(* encoding model fails to load (the face cascade file is missing or loads *)
(* empty, the recognition model cannot be created); a failure of the store *)
(* connection, of the eye, nose or mouth cascade or of the cache file does *)
(* not abort it.                                                           *)
(***************************************************************************)
C19_ImportAbortsOnlyOnModelFailure ==
    LastCall("import") => (scanOut.ret.aborted <=> ModelFailedToLoad)


(***************************************************************************)
(* extract_face: the choice among the regions the detector returns.  A     *)
(* region of the cascade detector is (x, y, w, h); a face location of the  *)
(* face_recognition library is (top, right, bottom, left).  Regions are    *)
(* drawn with their corner at the origin and sides of 1..MaxSide.          *)
(***************************************************************************)
MaxSide == 2                \* longest side of a candidate region
MaxFaces == 3               \* most regions one detection returns

Rects == [x : {0}, y : {0}, w : 1..MaxSide, h : 1..MaxSide]
RectSeqs(lo, hi) == UNION {[1..n -> Rects] : n \in lo..hi}

\* (x, y, w, h) as the location (top, right, bottom, left) dlib reports, and back
location_of(rect) ==
    [top |-> rect.y, right |-> rect.x + rect.w, bottom |-> rect.y + rect.h, left |-> rect.x]
rect_of(loc) ==
    [x |-> loc.left, y |-> loc.top, w |-> loc.right - loc.left, h |-> loc.bottom - loc.top]

area(rect) == rect.w * rect.h

\* max(faces, key=lambda rect: rect[2] * rect[3]): the first region of maximal area
largest_face(faces) ==
    LET best == CHOOSE i \in 1..Len(faces) :
                    /\ \A j \in 1..Len(faces) : area(faces[j]) <= area(faces[i])
                    /\ \A j \in 1..(i - 1) : area(faces[j]) < area(faces[i])
    IN  faces[best]

NoRect == [x |-> 0, y |-> 0, w |-> 0, h |-> 0]
NotAligned == [same |-> TRUE, faces |-> <<>>]

\* face_match.py: extract_face.  faces: the regions of the first scale factor that
\* finds any; aligned.same: align_face returned its input; aligned.faces: the
\* regions found again in the aligned image
fm_extract_face(faces, align_faces, aligned) ==
    IF faces = <<>> THEN [rect |-> NoRect, image |-> "none"]
    ELSE IF align_faces /\ ~aligned.same
        THEN IF aligned.faces # <<>>
                THEN [rect |-> largest_face(aligned.faces), image |-> "aligned"]
                ELSE [rect |-> largest_face(faces), image |-> "aligned"]
        ELSE [rect |-> largest_face(faces), image |-> "gray"]

\* simple_face_match.py: extract_face
simple_extract_face(faces) ==
    IF faces = <<>> THEN [rect |-> NoRect, image |-> "none"]
    ELSE [rect |-> largest_face(faces), image |-> "gray"]

\* advanced_face_match.py: extract_face
adv_extract_face(face_locations) ==
    IF face_locations = <<>> THEN [rect |-> NoRect, image |-> "none"]
    ELSE [rect |-> rect_of(face_locations[1]), image |-> "rgb"]

(***************************************************************************)
(* SpecExtract: one call of extract_face of one engine on what the         *)
(* detector returns for the image.                                         *)
(***************************************************************************)
InitExtract ==
    /\ \/ \E faces \in RectSeqs(0, MaxFaces), align \in BOOLEAN,
             aligned \in {NotAligned} \cup [same : {FALSE}, faces : RectSeqs(0, 2)] :
            scanIn = [engine |-> "face_match", faces |-> faces, align_faces |-> align,
                      aligned |-> IF align THEN aligned ELSE NotAligned]
       \/ \E faces \in RectSeqs(0, MaxFaces) :
            scanIn = [engine |-> "simple", faces |-> faces, align_faces |-> FALSE,
                      aligned |-> NotAligned]
       \/ \E faces \in RectSeqs(0, MaxFaces) :
            scanIn = [engine |-> "advanced", faces |-> faces, align_faces |-> FALSE,
                      aligned |-> NotAligned]
    /\ scanOut = Pending
    /\ known_face_encodings = EmptyDict /\ cacheFile = AbsentFile
    /\ users = [i \in UserIds |-> [id |-> i, image_path |-> NoPath]]
    /\ files = [p \in FacePaths |-> MissingFile]
    /\ scan = ScanIdle /\ calls = 0
    /\ scoreIn = Idle /\ scoreOut = Pending /\ verifyIn = Idle /\ verifyOut = Pending

\* extract_face returned r
Extracted(r) ==
    /\ scanOut' = [fn |-> "extract_face", ret |-> r]
    /\ UNCHANGED <<callVars, calls, users, files, known_face_encodings, cacheFile, scan, scanIn>>

ExtractFM ==
    /\ scanIn.engine = "face_match" /\ scanOut = Pending
    /\ Extracted(fm_extract_face(scanIn.faces, scanIn.align_faces, scanIn.aligned))

ExtractSimple ==
    /\ scanIn.engine = "simple" /\ scanOut = Pending
    /\ Extracted(simple_extract_face(scanIn.faces))

ExtractAdvanced ==
    /\ scanIn.engine = "advanced" /\ scanOut = Pending
    /\ Extracted(adv_extract_face([n \in DOMAIN scanIn.faces |-> location_of(scanIn.faces[n])]))

NextExtract ==
    \/ ExtractFM
    \/ ExtractSimple
    \/ ExtractAdvanced

SpecExtract == InitExtract /\ [][NextExtract]_vars

\* the regions the returned crop was chosen among
Candidates ==
    IF scanOut.ret.image = "aligned" /\ scanIn.aligned.faces # <<>>
        THEN scanIn.aligned.faces ELSE scanIn.faces

(***************************************************************************)
(* C20: when the detector finds several regions, extract_face of every     *)
(* engine crops a region of the largest area (width times height) among    *)
(* them, also when face_match.py detects again in the aligned image.       *)
(***************************************************************************)
C20_ExtractUsesTheLargestRegion ==
    (LastCall("extract_face") /\ scanIn.faces # <<>>) =>
        /\ \E n \in DOMAIN Candidates : Candidates[n] = scanOut.ret.rect
        /\ \A n \in DOMAIN Candidates : area(Candidates[n]) <= area(scanOut.ret.rect)


(***************************************************************************)
(* face_match.py: extract_face, the detection passes.  detected[n] is what *)
(* face_cascade.detectMultiScale returns for the image at the n-th scale   *)
(* factor (in hundredths).  A detection is [faces, passes]: the regions    *)
(* collected and the scale factors tried, in order.                        *)
(***************************************************************************)
ScaleFactors == <<110, 120, 130>>

\* a loop that never leaves early
never_break(faces) == FALSE

\* if len(faces) > 0: break
break_on_faces(faces) == Len(faces) > 0

RECURSIVE detect_from(_, _, _)
detect_from(n, d, detected) ==
    IF n > Len(ScaleFactors) THEN d
    ELSE LET faces == d.faces \o detected[n]
             now == [faces |-> faces, passes |-> Append(d.passes, ScaleFactors[n])]
         IN  IF break_on_faces(faces) THEN now ELSE detect_from(n + 1, now, detected)

detect_faces(detected) == detect_from(1, [faces |-> <<>>, passes |-> <<>>], detected)

\* extract_face from the detection on: the crop and the passes it took
fm_extract_face_scaled(detected, align_faces, aligned) ==
    LET d == detect_faces(detected)
        r == fm_extract_face(d.faces, align_faces, aligned)
    IN  [rect |-> r.rect, image |-> r.image, passes |-> d.passes]

(***************************************************************************)
(* SpecDetect: one call of face_match.extract_face on an image for which   *)
(* the detector returns detected[n] at the n-th scale factor.              *)
(***************************************************************************)
InitDetect ==
    /\ \E detected \in [DOMAIN ScaleFactors -> RectSeqs(0, 1)], align \in BOOLEAN,
          aligned \in {NotAligned} \cup [same : {FALSE}, faces : RectSeqs(0, 1)] :
            scanIn = [engine |-> "face_match", detected |-> detected, align_faces |-> align,
                      aligned |-> IF align THEN aligned ELSE NotAligned]
    /\ scanOut = Pending
    /\ known_face_encodings = EmptyDict /\ cacheFile = AbsentFile
    /\ users = [i \in UserIds |-> [id |-> i, image_path |-> NoPath]]
    /\ files = [p \in FacePaths |-> MissingFile]
    /\ scan = ScanIdle /\ calls = 0
    /\ scoreIn = Idle /\ scoreOut = Pending /\ verifyIn = Idle /\ verifyOut = Pending

DetectFM ==
    /\ scanOut = Pending
    /\ Extracted(fm_extract_face_scaled(scanIn.detected, scanIn.align_faces, scanIn.aligned))

NextDetect == DetectFM

SpecDetect == InitDetect /\ [][NextDetect]_vars

\* the pass at the n-th scale factor found a face
PassFinds(n) == scanIn.detected[n] # <<>>

(***************************************************************************)
(* C21: extract_face runs the detector at the scale factors 1.1, 1.2 and   *)
(* 1.3 in that order; it runs the pass at a factor exactly when every      *)
(* earlier pass found no face, so it stops at the first pass that finds    *)
(* one and uses the regions of that pass, and it returns nothing exactly   *)
(* when none of the three passes found a face.                             *)
(***************************************************************************)
C21_DetectionStopsAtFirstFind ==
    LastCall("extract_face") =>
        /\ \A n \in DOMAIN ScaleFactors :
            (n \in DOMAIN scanOut.ret.passes /\ scanOut.ret.passes[n] = ScaleFactors[n])
                <=> \A k \in 1..(n - 1) : ~PassFinds(k)
        /\ Len(scanOut.ret.passes) <= Len(ScaleFactors)
        /\ (scanOut.ret.image = "none") <=> \A n \in DOMAIN ScaleFactors : ~PassFinds(n)
        /\ (scanOut.ret.image = "gray") =>
                \E n \in DOMAIN ScaleFactors :
                    /\ n = Len(scanOut.ret.passes)
                    /\ \E k \in DOMAIN scanIn.detected[n] :
                            scanIn.detected[n][k] = scanOut.ret.rect

\* the first pass found nothing, the second found a face and the third, which
\* would have found one too, was not run
C21_Witness ==
    /\ LastCall("extract_face")
    /\ ~PassFinds(1) /\ PassFinds(2) /\ PassFinds(3)
    /\ scanOut.ret.passes = <<110, 120>>
    /\ scanOut.ret.image = "gray"


\* alignment rotated the image and the detector finds no face in the rotated one
RedetectionFailed ==
    /\ scanIn.engine = "face_match" /\ scanIn.faces # <<>>
    /\ scanIn.align_faces /\ ~scanIn.aligned.same /\ scanIn.aligned.faces = <<>>

(***************************************************************************)
(* C22: when alignment rotated the image and the detector finds no face in *)
(* the rotated image, extract_face does not fail and crops the region      *)
(* detected first out of the image as it was before the rotation.          *)
(***************************************************************************)
C22_FallbackToUnrotatedRegion ==
    (LastCall("extract_face") /\ RedetectionFailed) =>
        scanOut.ret = [rect |-> largest_face(scanIn.faces), image |-> "gray"]


\* the eye, nose or mouth cascade finds something in the crop
HasLandmarks(face) == face.eyes > 0 \/ face.nose > 0 \/ face.mouth > 0

(***************************************************************************)
(* C23: compute_similarity_multiple lets the geometric-feature metric take *)
(* part in the fusion only when landmarks were found in both faces: the    *)
(* scores of a comparison in which one face has no eye, nose or mouth hold *)
(* no facial_features entry, so two faces without landmarks are never      *)
(* given the geometric similarity 1.                                       *)
(***************************************************************************)
C23_GeometricMetricNeedsLandmarks ==
    (scoreOut # Pending /\ scoreOut.fn = "compute_similarity_multiple"
        /\ "facial_features" \in DOMAIN scoreOut.r.scores) =>
        (HasLandmarks(scoreIn.face1) /\ HasLandmarks(scoreIn.face2))


\* what a process that loads the cache file now finds in it
Loadable == load_face_encodings(cacheFile)

(***************************************************************************)
(* C24: the cache file can be loaded at any moment, also while             *)
(* save_face_encodings is writing it or after a crash during the write,    *)
(* and the loader finds every identity's entry: an entry the file held     *)
(* before a step is still found after it, with its old or its new value,   *)
(* and is never missing.                                                   *)
(***************************************************************************)
C24_FileNeverLosesAnEntry ==
    [][\A k \in DOMAIN Loadable :
            /\ k \in DOMAIN Loadable'
            /\ Loadable'[k] \in {Loadable[k], known_face_encodings'[k]}]_vars


\* the reference image of user i can be encoded as it is now
EncodableNow(i) ==
    /\ users[i].image_path # NoPath
    /\ imread_ok(files[users[i].image_path])
    /\ CurrentEncoding(i) # NoEnc

\* the call that was just served is a verify_face of an identity that had an entry,
\* the encoding of the reference image it has now
VerifiedWithEntry ==
    /\ calls' = calls + 1 /\ LastCall("verify_face")'
    /\ id_key(scanIn'.user) \in DOMAIN known_face_encodings
    /\ known_face_encodings[id_key(scanIn'.user)] = CurrentEncoding(scanIn'.user)

(***************************************************************************)
(* C25: an identity has a cache entry from its first successful encode on: *)
(* a save_user_face that succeeds leaves the encoding of the registered    *)
(* image under the identity (overwriting an earlier entry), a duplicate    *)
(* scan that completes leaves an entry for every identity whose reference  *)
(* image can be encoded, and a verification of an identity that has an     *)
(* entry compares with that entry instead of encoding the reference image  *)
(* again.                                                                  *)
(***************************************************************************)
C25_EntryExistsAndIsReused ==
    /\ [](/\ (LastCall("save_user_face") /\ scanOut.ret) =>
                /\ id_key(scanIn.user) \in DOMAIN known_face_encodings
                /\ known_face_encodings[id_key(scanIn.user)] =
                        get_face_encoding(scanIn.image, FALSE)
          /\ (LastCall("is_face_duplicate") /\ scanIn.failAt = 0 /\ scan.encoding # NoEnc) =>
                \A i \in UserIds :
                    EncodableNow(i) => id_key(i) \in DOMAIN known_face_encodings)
    /\ [][VerifiedWithEntry =>
            scanIn'.cached = known_face_encodings[id_key(scanIn'.user)]]_vars


(***************************************************************************)
(* C26: an encoding written by another version of the engine is never      *)
(* handed to compare_faces: a duplicate scan compares no identity whose    *)
(* cache entry is of another version, and a verify_face that finds such an *)
(* entry for the stored image does not score with it.                      *)
(***************************************************************************)
C26_OtherVersionIsNeverScored ==
    /\ LastCall("is_face_duplicate") =>
        \A n \in DOMAIN scan.sims :
            known_face_encodings[id_key(scan.sims[n][1])] # OtherVersionEnc
    /\ (LastCall("verify_face") /\ scanIn.cached = OtherVersionEnc) =>
        scanOut.ret.method # "face_recognition"


(***************************************************************************)
(* C27: is_face_duplicate names an identity exactly when it reports a      *)
(* duplicate: whenever its first result is false its second result is      *)
(* None, in each of the three engines.                                     *)
(***************************************************************************)
C27_IdentityOnlyWithDuplicate ==
    ScanCalled => (scanOut.ret.is_duplicate <=> scanOut.ret.best_match # NoUser)


(***************************************************************************)
(* server.py: the POST branch of face_scan, which uses the engine of       *)
(* simple_face_match.py.  The upload is saved to a temporary file and      *)
(* is_face_duplicate is called with the path of that file, a str, where    *)
(* the engine expects a decoded image: preprocess_image fails on           *)
(* image.shape, catches the exception and returns None.                    *)
(***************************************************************************)
\* what extract_face sees when it is handed a path instead of an image
str_as_image(file) == UnreadableFile

\* st = [users, files, ret]; check_raises: an exception escapes the duplicate check
server_face_scan(upload, user_id, st, ms, check_raises) ==
    LET file_path == server_face_file(user_id)
        check == simple_is_face_duplicate(str_as_image(upload), st.users, st.files, ms,
                                          NoFaults).ret
    IN  IF ~check_raises /\ check.is_duplicate
            THEN [st EXCEPT !.ret = [success |-> FALSE, duplicate |-> TRUE]]
            ELSE [users |-> [st.users EXCEPT ![user_id].image_path = file_path],
                  files |-> [st.files EXCEPT ![file_path] = upload],
                  ret |-> [success |-> TRUE, duplicate |-> FALSE]]

(***************************************************************************)
(* SpecRegister: one face_scan upload by one user over a drawn corpus of   *)
(* users registered through the same route.                                *)
(***************************************************************************)
InitRegister ==
    /\ \E c \in Corpora(ScanCascadeFiles), u \in UserIds,
          upload \in ScanCascadeFiles \ {MissingFile}, x \in BOOLEAN :
        \E ms \in ScanMeasurementTables(upload.face, c) :
            /\ users = [i \in UserIds |->
                            [id |-> i,
                             image_path |-> IF c[i].has THEN server_face_file(i) ELSE NoPath]]
            /\ files = [p \in FacePaths |->
                            IF p < 0 /\ c[identity_of_key(p)].has
                                THEN c[identity_of_key(p)].file ELSE MissingFile]
            /\ scanIn = [fn |-> "face_scan", user |-> u, upload |-> upload, ms |-> ms,
                         check_raises |-> x]
    /\ scanOut = Pending
    /\ known_face_encodings = EmptyDict /\ cacheFile = AbsentFile
    /\ scan = ScanIdle /\ calls = 0
    /\ scoreIn = Idle /\ scoreOut = Pending /\ verifyIn = Idle /\ verifyOut = Pending

FaceScanPost ==
    /\ scanOut = Pending
    /\ LET r == server_face_scan(scanIn.upload, scanIn.user,
                                 [users |-> users, files |-> files, ret |-> FALSE],
                                 scanIn.ms, scanIn.check_raises)
       IN  /\ users' = r.users
           /\ files' = r.files
           /\ scanOut' = [fn |-> "face_scan", ret |-> r.ret]
    /\ UNCHANGED <<callVars, calls, known_face_encodings, cacheFile, scan, scanIn>>

NextRegister == FaceScanPost

SpecRegister == InitRegister /\ [][NextRegister]_vars

\* the upload was stored as the reference image of the user who sent it
UploadRegistered ==
    /\ LastCall("face_scan")
    /\ users[scanIn.user].image_path = server_face_file(scanIn.user)
    /\ files[server_face_file(scanIn.user)] = scanIn.upload

\* is_face_duplicate, given the decoded upload, finds it a duplicate of another user
DuplicatesAnotherUser ==
    simple_is_face_duplicate(scanIn.upload,
                             SelectSeq(users, LAMBDA x : x.id # scanIn.user),
                             files, scanIn.ms, NoFaults).ret.is_duplicate

(***************************************************************************)
(* C28: a face_scan upload becomes the user's reference image only if the  *)
(* duplicate check examined the uploaded image and found no duplicate: the *)
(* stored upload is a decodable image with a face, it does not duplicate   *)
(* another registered user's face, and the check did not fail.             *)
(***************************************************************************)
C28_OnlyCheckedUploadsAreRegistered ==
    UploadRegistered =>
        /\ imread_ok(scanIn.upload) /\ ~IsNone(scanIn.upload.face)
        /\ ~DuplicatesAnotherUser
        /\ ~scanIn.check_raises


(***************************************************************************)
(* server.py: the /verify_face route served to two users at once.  Each    *)
(* request looks its user up, saves the uploaded capture under the one     *)
(* name temp_verify.jpg, has verify_face compare that file with the user's *)
(* reference image and removes the file in its finally block.              *)
(***************************************************************************)
VerifyRouteThreshold == 5
\* static/faces/temp_verify.jpg
TempVerifyPath == NumUsers + 1
RoutePaths == FacePaths \cup {TempVerifyPath}

NoCapture == [st |-> "none"]
RouteIdle == [pc |-> "idle", stored_image_path |-> NoPath, read |-> NoCapture,
              removed |-> NoCapture, ret |-> [match |-> FALSE]]

\* user lookup and the checks before the upload is touched
route_lookup(l, user_id, coll, fs) ==
    LET user == coll[user_id]
    IN  IF user.image_path = NoPath
            THEN [l EXCEPT !.pc = "done",
                           !.ret = [success |-> FALSE, error |-> "no_registered_face"]]
        ELSE IF ~path_exists(fs[user.image_path])
            THEN [l EXCEPT !.pc = "done",
                           !.ret = [success |-> FALSE, error |-> "image_not_found"]]
        ELSE [l EXCEPT !.pc = "save", !.stored_image_path = user.image_path]

\* image_data.save(temp_path)
route_save(l, capture, fs) ==
    [l |-> [l EXCEPT !.pc = "verify"], fs |-> [fs EXCEPT ![TempVerifyPath] = capture]]

\* face_verify(image_path=temp_path, stored_image_path=..., threshold=0.05, ...)
route_verify(l, fs, ms) ==
    LET image == fs[TempVerifyPath]
        m == IF \E k \in DOMAIN ms : ms[k].capture = image
                 THEN ms[CHOOSE k \in DOMAIN ms : ms[k].capture = image].m
                 ELSE SelfMeasurement
        r == simple_verify_face([image |-> image, stored |-> fs[l.stored_image_path],
                                 threshold |-> VerifyRouteThreshold, m |-> m,
                                 fault |-> "none"])
    IN  [l EXCEPT !.pc = "cleanup", !.read = image, !.ret = r.ret]

\* finally: if os.path.exists(temp_path): os.remove(temp_path)
route_cleanup(l, fs) ==
    IF path_exists(fs[TempVerifyPath])
        THEN [l |-> [l EXCEPT !.pc = "done", !.removed = fs[TempVerifyPath]],
              fs |-> [fs EXCEPT ![TempVerifyPath] = MissingFile]]
        ELSE [l |-> [l EXCEPT !.pc = "done"], fs |-> fs]

(***************************************************************************)
(* SpecRoute: two requests of two different users, each with a capture of  *)
(* its own, stepping through the handler in any interleaving.              *)
(***************************************************************************)
RouteCaptures == ScanCascadeFiles \ {MissingFile}

InitRoute ==
    /\ \E c \in Corpora(ScanCascadeFiles), u \in [Threads -> UserIds],
          cap \in [Threads -> RouteCaptures] :
        /\ \A s, t \in Threads : s # t => u[s] # u[t] /\ cap[s] # cap[t]
        /\ \E ms \in [Threads -> [Threads -> DiagonalMeasurements \cup {SelfMeasurement}]] :
            /\ \A t, k \in Threads :
                    ms[t][k] \in MeasurementsOf(cap[k].face, c[u[t]].file.face, TRUE)
            /\ scanIn = [t \in Threads |->
                            [fn |-> "verify_route", user |-> u[t], capture |-> cap[t],
                             ms |-> [k \in Threads |-> [capture |-> cap[k], m |-> ms[t][k]]]]]
        /\ users = [i \in UserIds |->
                        [id |-> i,
                         image_path |-> IF c[i].has THEN server_face_file(i) ELSE NoPath]]
        /\ files = [p \in RoutePaths |->
                        IF p < 0 /\ c[identity_of_key(p)].has
                            THEN c[identity_of_key(p)].file ELSE MissingFile]
    /\ scan = [t \in Threads |-> RouteIdle]
    /\ scanOut = Pending /\ calls = 0
    /\ known_face_encodings = EmptyDict /\ cacheFile = AbsentFile
    /\ scoreIn = Idle /\ scoreOut = Pending /\ verifyIn = Idle /\ verifyOut = Pending

RouteLookup(t) ==
    /\ scan[t].pc = "idle"
    /\ scan' = [scan EXCEPT ![t] = route_lookup(scan[t], scanIn[t].user, users, files)]
    /\ UNCHANGED <<callVars, calls, users, files, known_face_encodings, cacheFile,
                   scanIn, scanOut>>

RouteSave(t) ==
    /\ scan[t].pc = "save"
    /\ LET r == route_save(scan[t], scanIn[t].capture, files)
       IN  scan' = [scan EXCEPT ![t] = r.l] /\ files' = r.fs
    /\ UNCHANGED <<callVars, calls, users, known_face_encodings, cacheFile, scanIn, scanOut>>

RouteVerify(t) ==
    /\ scan[t].pc = "verify"
    /\ scan' = [scan EXCEPT ![t] = route_verify(scan[t], files, scanIn[t].ms)]
    /\ UNCHANGED <<callVars, calls, users, files, known_face_encodings, cacheFile,
                   scanIn, scanOut>>

RouteCleanup(t) ==
    /\ scan[t].pc = "cleanup"
    /\ LET r == route_cleanup(scan[t], files)
       IN  scan' = [scan EXCEPT ![t] = r.l] /\ files' = r.fs
    /\ UNCHANGED <<callVars, calls, users, known_face_encodings, cacheFile, scanIn, scanOut>>

NextRoute ==
    \/ \E t \in Threads : RouteLookup(t)
    \/ \E t \in Threads : RouteSave(t)
    \/ \E t \in Threads : RouteVerify(t)
    \/ \E t \in Threads : RouteCleanup(t)

SpecRoute == InitRoute /\ [][NextRoute]_vars

(***************************************************************************)
(* C29: with two users' /verify_face requests in flight, the file a        *)
(* request hands to verify_face is the capture its own user uploaded, the  *)
(* reference is that user's own, and the file a request removes is its own *)
(* capture, in every interleaving.                                         *)
(***************************************************************************)
C29_RequestsKeepToTheirOwnCapture ==
    \A t \in Threads :
        /\ scan[t].read \in {NoCapture, scanIn[t].capture}
        /\ scan[t].removed \in {NoCapture, scanIn[t].capture}
        /\ scan[t].stored_image_path \in {NoPath, users[scanIn[t].user].image_path}


(***************************************************************************)
(* save_user_face in the three engines, with the failures its steps can    *)
(* meet: cv2.imwrite returning False ("imwrite") and users.update_one      *)
(* raising ("update").  st = [users, files, cache, file, ret].             *)
(***************************************************************************)
SaveFaults == {"none", "imwrite", "update"}

\* the file cv2.imwrite makes of an extracted face
face_file(face) == ImageFile(face, NoEnc)

\* face_match.py
fm_save_user_face(fault, image, user_id, st) ==
    LET face == extract_face(image, FALSE)
        output_path == engine_face_file(user_id)
    IN  IF ~imread_ok(image) THEN [st EXCEPT !.ret = FALSE]
        ELSE IF IsNone(face) THEN [st EXCEPT !.ret = FALSE]
        ELSE IF fault = "imwrite" THEN [st EXCEPT !.ret = FALSE]
        ELSE IF fault = "update"
            THEN [st EXCEPT !.ret = FALSE, !.files[output_path] = MissingFile]
        ELSE [st EXCEPT !.ret = TRUE,
                        !.files[output_path] = face_file(face),
                        !.users[user_id].image_path = output_path]

\* simple_face_match.py
simple_save_user_face(fault, image, user_id, st) ==
    LET face == extract_face(image, FALSE)
        output_path == engine_face_file(user_id)
    IN  IF ~imread_ok(image) \/ IsNone(face) \/ fault = "imwrite"
            THEN [st EXCEPT !.ret = FALSE]
        ELSE IF fault = "update"
            THEN [st EXCEPT !.ret = FALSE, !.files[output_path] = MissingFile]
        ELSE [st EXCEPT !.ret = TRUE,
                        !.files[output_path] = face_file(face),
                        !.users[user_id].image_path = output_path]

\* advanced_face_match.py: the value of cv2.imwrite is not looked at, and the one
\* except of the function removes nothing
adv_save_user_face_under(fault, image, user_id, st) ==
    IF fault = "none" \/ ~imread_ok(image) \/ get_face_encoding(image, FALSE) = NoEnc
        THEN adv_save_user_face(image, user_id, st)
    ELSE IF fault = "update"
        THEN [st EXCEPT !.ret = FALSE, !.files[engine_face_file(user_id)] = image]
    ELSE [adv_save_user_face(image, user_id, st) EXCEPT !.files = st.files]

(***************************************************************************)
(* SpecSave: a process that loaded one of the engines serves a bounded     *)
(* number of save_user_face calls, first registrations and repeated ones.  *)
(***************************************************************************)
InitSave ==
    /\ users = [i \in UserIds |-> [id |-> i, image_path |-> NoPath]]
    /\ files = [p \in FacePaths |-> MissingFile]
    /\ cacheFile = AbsentFile
    /\ known_face_encodings = load_face_encodings(cacheFile)
    /\ scan = ScanIdle
    /\ \E e \in {"face_match", "simple", "advanced"} : scanIn = [fn |-> "none", engine |-> e]
    /\ scanOut = Pending /\ calls = 0
    /\ scoreIn = Idle /\ scoreOut = Pending /\ verifyIn = Idle /\ verifyOut = Pending

SaveCall(engine, u, image, fault, st) ==
    /\ calls < MaxCalls
    /\ scanIn.engine = engine
    /\ Served("save_user_face",
              [engine |-> engine, user |-> u, image |-> image, fault |-> fault], st)
    /\ UNCHANGED scan

SaveFM ==
    \E u \in UserIds, image \in LifeImages \cup {UnreadableFile}, fault \in SaveFaults :
        /\ scanIn.engine = "face_match"
        /\ SaveCall("face_match", u, image, fault, fm_save_user_face(fault, image, u, CacheState))

SaveSimple ==
    \E u \in UserIds, image \in LifeImages \cup {UnreadableFile}, fault \in SaveFaults :
        /\ scanIn.engine = "simple"
        /\ SaveCall("simple", u, image, fault, simple_save_user_face(fault, image, u, CacheState))

SaveAdvanced ==
    \E u \in UserIds, image \in LifeImages \cup {UnreadableFile}, fault \in SaveFaults :
        /\ scanIn.engine = "advanced"
        /\ SaveCall("advanced", u, image, fault,
                    adv_save_user_face_under(fault, image, u, CacheState))

NextSave == SaveFM \/ SaveSimple \/ SaveAdvanced

SpecSave == InitSave /\ [][NextSave]_vars

\* a save_user_face call returns in this step
SaveReturns == calls' = calls + 1 /\ scanOut'.fn = "save_user_face"

(***************************************************************************)
(* C30: save_user_face is all-or-nothing.  A call that returns false       *)
(* leaves no face file of its own at static/faces/<user_id>.jpg and leaves *)
(* the users collection, the encoding cache and the cache file as they     *)
(* were; a call that returns true leaves the face file in place and the    *)
(* record's image_path pointing to it.                                     *)
(***************************************************************************)
C30_SaveIsAllOrNothing ==
    [][SaveReturns =>
        LET output_path == engine_face_file(scanIn'.user)
        IN  IF scanOut'.ret
                THEN /\ path_exists(files'[output_path])
                     /\ users'[scanIn'.user].image_path = output_path
                ELSE /\ files'[output_path] \in {files[output_path], MissingFile}
                     /\ users' = users
                     /\ known_face_encodings' = known_face_encodings
                     /\ cacheFile' = cacheFile]_vars

====
